---------------------------- MODULE Spec2Model ----------------------------
(***************************************************************************)
(* A model of the Directive Indexing and Context Assembly core of the      *)
(* rhombus editor extension:                                               *)
(*   src/src/directiveIndexer.ts   DirectiveIndexer                        *)
(*   src/src/contextManager.ts     EnhancedContextManager                  *)
(*   src/src/chatPanel.ts          EnhancedContextManager, ChatPanel       *)
(*   src/src/modelManager.ts       PromptStore                             *)
(*                                                                         *)
(* Abstractions, stated once:                                              *)
(*  - a source line is the record a lexer would give for it: which of the  *)
(*    three directive regexes matches first (form), whether the line       *)
(*    starts with a comment marker (marked), the captured instruction      *)
(*    (text), the captured id, the line with its marker stripped (rest),   *)
(*    its characters (chars, with pad more characters of no interest       *)
(*    after them on a long line) and their count (size);                   *)
(*  - a multi-line string is the sequence of its lines, as split("\n")     *)
(*    gives it; its length is the sizes of its lines plus the newlines;    *)
(*  - a request's intent is one lower-case word or the empty string;       *)
(*  - what the language server and the file search answer during a         *)
(*    request is an input of the request;                                  *)
(*  - an async method is followed from await to await: a call in flight    *)
(*    is a record of where it is suspended and what it has read so far;    *)
(*    consecutive awaits between which the call reads and writes nothing   *)
(*    are one suspension, and an await answered from a cache is none;      *)
(*  - importance values are in units of 1/10000, with the IEEE-754         *)
(*    rounding of the sums and products the code computes kept;            *)
(*  - line and character numbers are 0-based, as in the host API.          *)
(***************************************************************************)
EXTENDS Integers, Sequences, FiniteSets, TLC

VARIABLES
    doc,        \* file -> live text of the TextDocument (sequence of lines)
    oracle,     \* file -> what executeDocumentSymbolProvider answers for it
    map,        \* DirectiveIndexer.map: file -> Directive[] (absent = empty)
    origin,     \* history: file -> the line each directive of map was read on
    scans,      \* index calls suspended at the await of nextTopSymbolRange
    outcome,    \* file -> how the last finished index call on it ended
    updates,    \* number of _onDidUpdate.fire() calls so far
    calls,      \* number of index calls started so far
    uuids,      \* number of crypto.randomUUID() values drawn so far
    lastStep,   \* history: the last step of an index call, and what a subscriber read
    events,     \* history: file -> the document events the host has delivered for it
    query,      \* the last getAllForRange call: its file and range
    result,     \* what that call returned
    maxTokens,            \* EnhancedContextManager.maxTokens
    conversationHistory,  \* EnhancedContextManager.conversationHistory
    recorded,   \* history: every turn ever passed to addConversationTurn
    now,        \* Date.now(), a clock that ticks at every recorded turn
    candidates, \* history: the list last handed to optimizeContextForTokenLimit
    truncation, \* history: whether that call truncated an item, and the budget left then
    pending,    \* the calls in flight: each suspended at one of its awaits
    context,    \* the ProjectContext step 5 returned last
    fs,         \* the paths vscode.workspace.fs.stat finds
    sources,    \* source file -> what openTextDocument gives for it
    dependencyGraph,  \* EnhancedContextManager.dependencyGraph: file -> cached edges
    symbolCache,      \* EnhancedContextManager.symbolCache: file -> the tree cached for it
    analysis,   \* history: what the last helper call to return gave
    store,      \* PromptStore.map: uri -> Anchor[] (absent = empty)
    storeCall   \* history: the last PromptStore call, the list it found and what it gave

idxVars == <<doc, oracle, map, origin, scans, outcome, updates, calls, uuids, lastStep, events>>
qryVars == <<query, result>>
mgrVars == <<maxTokens, symbolCache, conversationHistory, recorded, now, candidates, truncation, pending, context>>
depVars == <<fs, sources, dependencyGraph, analysis>>
storeVars == <<store, storeCall>>
vars == <<idxVars, qryVars, mgrVars, depVars, storeVars>>

-----------------------------------------------------------------------------
(* Bounds *)

MaxLines == 3
MaxIndexCalls == 3
MaxQueryLines == 2
MaxDirectives == 2

-----------------------------------------------------------------------------
(* vscode.Position and vscode.Range, as the code uses them *)

Pos(l, c) == [line |-> l, character |-> c]

IsBefore(p, q) ==
    \/ p.line < q.line
    \/ p.line = q.line /\ p.character < q.character

IsBeforeOrEqual(p, q) == IsBefore(p, q) \/ p = q

PosMax(p, q) == IF IsBefore(p, q) THEN q ELSE p
PosMin(p, q) == IF IsBefore(q, p) THEN q ELSE p

\* new vscode.Range(startLine, startCharacter, endLine, endCharacter):
\* the constructor orders its two positions.
Range(sl, sc, el, ec) ==
    IF IsBefore(Pos(el, ec), Pos(sl, sc))
    THEN [start |-> Pos(el, ec), end |-> Pos(sl, sc)]
    ELSE [start |-> Pos(sl, sc), end |-> Pos(el, ec)]

\* "no range": the undefined that intersection and nextTopSymbolRange return
NoRange == [start |-> Pos(-1, -1), end |-> Pos(-1, -1)]

\* Range.contains(position)
ContainsPos(r, p) == IsBeforeOrEqual(r.start, p) /\ IsBeforeOrEqual(p, r.end)

\* Range.contains(range)
ContainsRange(r, s) == ContainsPos(r, s.start) /\ ContainsPos(r, s.end)

\* RangeIntersection with ranges that only touch taken as not overlapping
RangeIntersectionStrict(r, other) ==
    LET s == PosMax(other.start, r.start)
        e == PosMin(other.end, r.end)
    IN  IF ~IsBefore(s, e) THEN NoRange ELSE [start |-> s, end |-> e]

\* Range.intersection(other): undefined when the ranges do not overlap,
\* the (possibly empty) common range otherwise
RangeIntersection(r, other) ==
    LET s == PosMax(other.start, r.start)
        e == PosMin(other.end, r.end)
    IN  IF IsBefore(e, s) THEN NoRange ELSE [start |-> s, end |-> e]


-----------------------------------------------------------------------------
(* Documents: the lines a scan reads *)

NoId == 0                \* Directive.id undefined
ExplicitId == 1          \* an id="..." written in the source
UuidBase == 100          \* crypto.randomUUID() values are UuidBase + n

\* A line of text: its characters (`chars`, then `pad` filler characters "."
\* that stand for the rest of a long line), its character count `size`, and
\* what the tags of scan find on the whole line: the form (PROMPT_TAG,
\* LINE_TAG, GLOBAL_TAG or none), whether it starts with a comment marker, the
\* directive text, the id written on it and the text after the marker.
Line(form, marked, text, id, rest, chars, pad) ==
    [form |-> form, marked |-> marked, text |-> text, id |-> id, rest |-> rest,
     size |-> Len(chars) + pad, chars |-> chars, pad |-> pad]

\* "run()"
CodeLine ==
    Line("none", FALSE, "", NoId, "run()",
         <<"r", "u", "n", "(", ")">>, 0)
\* "// note"
NoteLine ==
    Line("none", TRUE, "", NoId, "note",
         <<"/", "/", " ", "n", "o", "t", "e">>, 0)
\* "// @ai: fix"
AiLine ==
    Line("line", TRUE, "fix", NoId, "@ai: fix",
         <<"/", "/", " ", "@", "a", "i", ":", " ", "f", "i", "x">>, 0)
\* "run() // @ai: try"
TrailLine ==
    Line("line", FALSE, "try", NoId, "run() // @ai: try",
         <<"r", "u", "n", "(", ")", " ", "/", "/", " ", "@", "a", "i", ":", " ", "t", "r", "y">>, 0)
\* '// @ai prompt="doc"'
PromptLine ==
    Line("prompt", TRUE, "doc", NoId, "@ai prompt=\"doc\"",
         <<"/", "/", " ", "@", "a", "i", " ", "p", "r", "o", "m", "p", "t", "=", "\"", "d", "o",
           "c", "\"">>, 0)
\* '// @ai prompt="doc" id="1"'
PromptIdLine ==
    Line("prompt", TRUE, "doc", ExplicitId, "@ai prompt=\"doc\" id=\"1\"",
         <<"/", "/", " ", "@", "a", "i", " ", "p", "r", "o", "m", "p", "t", "=", "\"", "d", "o",
           "c", "\"", " ", "i", "d", "=", "\"", "1", "\"">>, 0)
\* "// @ai-global:"
GlobalLine ==
    Line("global", TRUE, "", NoId, "@ai-global:",
         <<"/", "/", " ", "@", "a", "i", "-", "g", "l", "o", "b", "a", "l", ":">>, 0)

LineKinds == {CodeLine, NoteLine, AiLine, TrailLine, PromptLine, PromptIdLine, GlobalLine}

\* every text of 1..n lines (an empty document still has one line)
Texts(n) == UNION {[1..k -> LineKinds] : k \in 1..n}

Files == {"/a.ts", "/b.ts", "/a.test.ts"}

\* doc.lineCount
LineCount(text) == Len(text)

\* doc.lineAt(i), i 0-based
LineAt(text, i) == text[i + 1]

\* PROMPT_TAG.exec(text), LINE_TAG.exec(text), GLOBAL_TAG.test(text)
PROMPT_TAG(line) == line.form = "prompt"
LINE_TAG(line) == line.form = "line"
GLOBAL_TAG(line) == line.form = "global"

\* /^\s*(?:\/\/|#|--)\s?/.test(l)
CommentMarked(line) == line.marked

\* lines.join("\n"), the result as the sequence of its lines
Join(lines) == IF lines = <<>> THEN <<"">> ELSE lines

-----------------------------------------------------------------------------
(* The symbol oracle: vscode.executeDocumentSymbolProvider *)

\* a DocumentSymbol: its name, its range and its children
NamedSym(name, r, kids) == [name |-> name, range |-> r, children |-> kids]
Sym(r, kids) == NamedSym(<<"s", "y", "m", "b", "o", "l">>, r, kids)

\* what the command gives: it rejects, resolves to undefined, or resolves to
\* a tree
OracleFails == [status |-> "fails", symbols |-> <<>>]
OracleNothing == [status |-> "undefined", symbols |-> <<>>]
OracleTree(symbols) == [status |-> "tree", symbols |-> symbols]

\* a symbol spanning lines s..e of the document
SymRange(s, e) == Range(s, 0, e, 1)

\* the trees the oracle may give for a document of n lines: no symbol; one
\* symbol on one line; a symbol over the whole document with a child on one
\* line; two symbols on adjacent lines, in either order (the provider API
\* fixes no order); a symbol over the whole document followed by a sibling
\* on one line inside it (the provider API does not keep siblings apart)
Trees(n) ==
    {<<>>}
    \cup {<<Sym(SymRange(k, k), <<>>)>> : k \in 0..(n - 1)}
    \cup {<<Sym(SymRange(0, n - 1), <<Sym(SymRange(k, k), <<>>)>>)>> : k \in 0..(n - 1)}
    \cup {<<Sym(SymRange(k, k), <<>>), Sym(SymRange(k + 1, k + 1), <<>>)>> : k \in 0..(n - 2)}
    \cup {<<Sym(SymRange(k + 1, k + 1), <<>>), Sym(SymRange(k, k), <<>>)>> : k \in 0..(n - 2)}
    \cup {<<Sym(SymRange(0, n - 1), <<>>), Sym(SymRange(k, k), <<>>)>> :
             k \in {h \in 0..(n - 1) : n > 1}}

OracleAnswers(n) == {OracleFails, OracleNothing} \cup {OracleTree(t) : t \in Trees(n)}

\* flatten: arr.flatMap((s) => [s, ...flatten(s.children)])
RECURSIVE flatten(_)
flatten(arr) ==
    IF arr = <<>> THEN <<>>
    ELSE <<Head(arr)>> \o flatten(Head(arr).children) \o flatten(Tail(arr))

\* all.find(pred): index of the first element satisfying it, 0 when none
FirstAfter(all, fromLine) ==
    LET hits == {k \in 1..Len(all) : all[k].range.start.line > fromLine}
    IN  IF hits = {} THEN 0 ELSE CHOOSE k \in hits : \A h \in hits : k <= h

\* nextTopSymbolRange(doc, fromLine) once the oracle has answered
nextTopSymbolRange(answer, fromLine) ==
    IF answer.status # "tree" THEN NoRange
    ELSE LET all == flatten(answer.symbols)
             k == FirstAfter(all, fromLine)
         IN  IF k = 0 THEN NoRange ELSE all[k].range

-----------------------------------------------------------------------------
(* EnhancedContextManager: construction and the conversation ledger *)

DefaultMaxTokens == 8000     \* constructor(directiveIndexer, maxTokens = 8000)
HistoryLimit == 10           \* "Keep only last 10 turns"

\* a ProjectContext (workspaceInfo, which no step reads back, is left out)
ProjectContext(items, totalTokens, history) ==
    [items |-> items, totalTokens |-> totalTokens, conversationHistory |-> history]

\* no context built yet
NoContext == ProjectContext(<<>>, 0, <<>>)

\* optimizeContextForTokenLimit not called yet
NotFitted == [made |-> FALSE, remaining |-> -1]

\* a request: the user's text and the active editor when it was made

\* window.activeTextEditor undefined, and an editor on a file with a selection
NoEditor == [file |-> "", selection |-> NoRange]
Editor(file, selection) == [file |-> file, selection |-> selection]

\* no call in flight
NoRequest == <<>>

\* the calls of one helper that are suspended at the same time
MaxInFlight == 2

\* new EnhancedContextManager(directiveIndexer, maxTokens)
\* a path: its segments below the root, the last one without its extension
Path(segments, ext) == [segments |-> segments, ext |-> ext]

\* a segment of a path or of a module specifier is the tuple of its
\* characters: ".", "..", the directory and module names, the hidden
\* directory ".prisma"
DotSeg == <<".">>
DotDotSeg == <<".", ".">>
ProjSeg == <<"p", "r", "o", "j">>
SrcSeg == <<"s", "r", "c">>
UtilsSeg == <<"u", "t", "i", "l", "s">>
LibSeg == <<"l", "i", "b">>
VscodeSeg == <<"v", "s", "c", "o", "d", "e">>
IndexSeg == <<"i", "n", "d", "e", "x">>
PrismaSeg == <<".", "p", "r", "i", "s", "m", "a">>
ClientSeg == <<"c", "l", "i", "e", "n", "t">>

\* the file whose imports are analysed
SourceFile == Path(<<ProjSeg, SrcSeg, <<"a">>>>, ".ts")
SourceFiles == {SourceFile, Path(<<ProjSeg, SrcSeg, <<"b">>>>, ".ts")}

\* what openTextDocument(path).getText() holds of interest: the specifiers of
\* the import ... from and of the require(...) matches, in text order; a path
\* that cannot be opened makes openTextDocument reject
Source(imports, requires) == [readable |-> TRUE, imports |-> imports, requires |-> requires]
Unreadable == [readable |-> FALSE, imports |-> <<>>, requires |-> <<>>]

NoAnalysis == [call |-> "none"]
NotCached == [cached |-> FALSE, edges |-> <<>>]

\* new Map() for symbolCache: no tree is kept for any file (an entry is
\* always a tree: getDocumentSymbols never stores an undefined answer)
NothingCached == [f \in Files |-> OracleNothing]

\* new Map(): nothing analysed; and a workspace with no file on disk
NothingAnalysed ==
    /\ dependencyGraph = [f \in SourceFiles |-> NotCached]
    /\ analysis = NoAnalysis
NoFiles ==
    /\ fs = {}
    /\ sources = [f \in SourceFiles |-> Unreadable]

FreshManager(budget) ==
    /\ NothingAnalysed
    /\ maxTokens = budget
    /\ symbolCache = NothingCached
    /\ conversationHistory = <<>>
    /\ recorded = <<>>
    /\ now = 0
    /\ candidates = <<>>
    /\ truncation = NotFitted
    /\ pending = NoRequest
    /\ context = NoContext

\* no getAllForRange call made yet
NoQuery == [file |-> "", range |-> NoRange, id |-> NoId]
NoQueryYet == query = NoQuery /\ result = <<>>

\* the uris a PromptStore is asked about
Uris == {"/a.ts", "/b.ts"}

\* no PromptStore call made yet
NoStoreCall ==
    [call |-> "none", uri |-> "", id |-> NoId, prompt |-> "", line |-> 0,
     before |-> <<>>, thrown |-> FALSE, hit |-> <<>>, lenses |-> <<>>]

\* new PromptStore(): private map = new Map()
EmptyStore == store = [u \in Uris |-> <<>>] /\ storeCall = NoStoreCall

\* array.slice(-n)
SliceLast(seq, n) ==
    IF Len(seq) <= n THEN seq ELSE [k \in 1..n |-> seq[Len(seq) - n + k]]

\* array.slice(0, n)
SliceFirst(seq, n) ==
    IF Len(seq) <= n THEN seq ELSE [k \in 1..n |-> seq[k]]

ConversationTurn(request, response, filesModified, timestamp) ==
    [request |-> request, response |-> response,
     filesModified |-> filesModified, timestamp |-> timestamp]

\* addConversationTurn keeping the ten oldest turns instead of the ten newest
addConversationTurnKeepOldest(request, response, filesModified) ==
    LET turn == ConversationTurn(request, response, filesModified, now)
        pushed == Append(conversationHistory, turn)
    IN  /\ conversationHistory' =
              IF Len(pushed) > HistoryLimit THEN SliceFirst(pushed, HistoryLimit) ELSE pushed
        /\ recorded' = Append(recorded, turn)
        /\ now' = now + 1
        /\ UNCHANGED <<maxTokens, symbolCache>>

\* addConversationTurn(request, response, filesModified)
addConversationTurn(request, response, filesModified) ==
    LET turn == ConversationTurn(request, response, filesModified, now)
        pushed == Append(conversationHistory, turn)
    IN  /\ conversationHistory' =
              IF Len(pushed) > HistoryLimit THEN SliceLast(pushed, HistoryLimit) ELSE pushed
        /\ recorded' = Append(recorded, turn)
        /\ now' = now + 1
        /\ UNCHANGED <<maxTokens, symbolCache>>

-----------------------------------------------------------------------------
(* DirectiveIndexer.scan *)

Directive(file, range, text, id) ==
    [file |-> file, range |-> range, text |-> text, id |-> id]

\* the inner while loop of the global block: the first j at or after `j`
\* whose line is past the end or not comment-marked
RECURSIVE BlockEnd(_, _)
BlockEnd(text, j) ==
    IF j < LineCount(text) /\ CommentMarked(LineAt(text, j))
    THEN BlockEnd(text, j + 1)
    ELSE j

\* the body lines pushed by that loop, markers stripped
BlockLines(text, i, j) == [k \in 1..(j - (i + 1)) |-> LineAt(text, i + k).rest]

\* new vscode.Range(i + 1, 0, doc.lineCount, 0)
RestOfFile(text, i) == Range(i + 1, 0, LineCount(text), 0)

\* the global range taken as the whole first line
GlobalRangeFirstLine == Range(0, 0, 1, 0)

\* new vscode.Range(0, 0, 0, 0)
GlobalRange == Range(0, 0, 0, 0)

\* The for loop of scan, run from line i until it completes (done) or reaches
\* the await of a prompt or single-line directive (suspended on line i).
\* `lines` is history only: the line each directive was read on.
RECURSIVE ScanLoop(_, _, _, _, _)
ScanLoop(file, text, i, directives, lines) ==
    IF ~(i < LineCount(text))
    THEN [done |-> TRUE, i |-> i, directives |-> directives, lines |-> lines,
          prompt |-> <<>>, rawId |-> NoId, form |-> "none"]
    ELSE LET line == LineAt(text, i)
         IN  IF PROMPT_TAG(line)
             THEN [done |-> FALSE, i |-> i, directives |-> directives, lines |-> lines,
                   prompt |-> <<line.text>>, rawId |-> line.id, form |-> "prompt"]
             ELSE IF LINE_TAG(line)
             THEN [done |-> FALSE, i |-> i, directives |-> directives, lines |-> lines,
                   prompt |-> <<line.text>>, rawId |-> NoId, form |-> "line"]
             ELSE IF GLOBAL_TAG(line)
             THEN LET j == BlockEnd(text, i + 1)
                      d == Directive(file, GlobalRange,
                                     Join(BlockLines(text, i, j)), NoId)
                  IN  ScanLoop(file, text, j + 1, Append(directives, d), Append(lines, i))
             ELSE ScanLoop(file, text, i + 1, directives, lines)

\* does the suspended step draw a random id (rawId ?? crypto.randomUUID())
DrawsUuid(r) == ~r.done /\ r.form = "prompt" /\ r.rawId = NoId

\* the id of the directive being built
PendingId(r, n) ==
    IF r.form # "prompt" THEN NoId
    ELSE IF r.rawId # NoId THEN r.rawId
    ELSE UuidBase + n

\* the scan's frame while it awaits the oracle
Suspended(file, r, n) ==
    [file |-> file, i |-> r.i, directives |-> r.directives, lines |-> r.lines,
     prompt |-> r.prompt, id |-> PendingId(r, n)]

\* symRange = (await nextTopSymbolRange(doc, i)) ?? rest of file, and the push
Bind(p, answer, text) ==
    LET symRange == nextTopSymbolRange(answer, p.i)
        range == IF symRange = NoRange THEN RestOfFile(text, p.i) ELSE symRange
    IN  Append(p.directives, Directive(p.file, range, p.prompt, p.id))

RemoveAt(seq, k) == [j \in 1..(Len(seq) - 1) |-> IF j < k THEN seq[j] ELSE seq[j + 1]]

\* the last step of an index call on a file: it suspended at an await, it
\* completed (seen: the file's list as an onDidUpdate subscriber reads it
\* when notified), or it failed
Step(kind, file, seen) == [kind |-> kind, file |-> file, seen |-> seen]
NoStep == Step("none", "", <<>>)

\* Continue with the notification fired before the list is replaced, and
\* only when the list changes
ContinueNotifyingFirst(file, r, rest) ==
    IF r.done
    THEN /\ map' = [map EXCEPT ![file] = r.directives]
         /\ origin' = [origin EXCEPT ![file] = r.lines]
         /\ updates' = IF map'[file] = map[file] THEN updates ELSE updates + 1
         /\ lastStep' = Step("completed", file, map[file])
         /\ outcome' = [outcome EXCEPT ![file] = "completed"]
         /\ scans' = rest
         /\ UNCHANGED uuids
    ELSE /\ scans' = Append(rest, Suspended(file, r, uuids))
         /\ uuids' = IF DrawsUuid(r) THEN uuids + 1 ELSE uuids
         /\ lastStep' = Step("suspended", file, <<>>)
         /\ UNCHANGED <<map, origin, updates, outcome>>

\* Continue with the new directives merged into the file's previous list
ContinueMerging(file, r, rest) ==
    IF r.done
    THEN /\ map' = [map EXCEPT ![file] = @ \o r.directives]
         /\ origin' = [origin EXCEPT ![file] = @ \o r.lines]
         /\ updates' = updates + 1
         /\ lastStep' = Step("completed", file, map'[file])
         /\ outcome' = [outcome EXCEPT ![file] = "completed"]
         /\ scans' = rest
         /\ UNCHANGED uuids
    ELSE /\ scans' = Append(rest, Suspended(file, r, uuids))
         /\ uuids' = IF DrawsUuid(r) THEN uuids + 1 ELSE uuids
         /\ lastStep' = Step("suspended", file, <<>>)
         /\ UNCHANGED <<map, origin, updates, outcome>>

\* the scan runs on from r: it ends (map.set, fire) or suspends again
Continue(file, r, rest) ==
    IF r.done
    THEN /\ map' = [map EXCEPT ![file] = r.directives]
         /\ origin' = [origin EXCEPT ![file] = r.lines]
         /\ updates' = updates + 1
         /\ lastStep' = Step("completed", file, map'[file])
         /\ outcome' = [outcome EXCEPT ![file] = "completed"]
         /\ scans' = rest
         /\ UNCHANGED uuids
    ELSE /\ scans' = Append(rest, Suspended(file, r, uuids))
         /\ uuids' = IF DrawsUuid(r) THEN uuids + 1 ELSE uuids
         /\ lastStep' = Step("suspended", file, <<>>)
         /\ UNCHANGED <<map, origin, updates, outcome>>

\* index(doc) run to its end while the oracle gives `answer`; the ids it
\* draws are all different
RECURSIVE RunScan(_, _, _, _)
RunScan(file, text, answer, r) ==
    IF r.done THEN r
    ELSE RunScan(file, text, answer,
                 ScanLoop(file, text, r.i + 1,
                          Bind(Suspended(file, r, Len(r.directives)), answer, text),
                          Append(r.lines, r.i)))

Indexed(file, text, answer) == RunScan(file, text, answer, ScanLoop(file, text, 0, <<>>, <<>>))

\* index(doc) with the directives array kept from the previous scan
IndexKeepingList(f) ==
    /\ calls < MaxIndexCalls
    /\ calls' = calls + 1
    /\ Continue(f, ScanLoop(f, doc[f], 0, map[f], origin[f]), scans)
    /\ UNCHANGED <<doc, oracle, events, qryVars, storeVars, mgrVars, depVars>>

\* index(doc): scan starts and runs to its first await or to its end
Index(f) ==
    /\ calls < MaxIndexCalls
    /\ calls' = calls + 1
    /\ Continue(f, ScanLoop(f, doc[f], 0, <<>>, <<>>), scans)
    /\ UNCHANGED <<doc, oracle, events, qryVars, storeVars, mgrVars, depVars>>

\* the oracle answers the k-th suspended scan, which runs on
OracleReturn(k) ==
    /\ k \in 1..Len(scans)
    /\ LET p == scans[k]
           answer == oracle[p.file]
       IN  /\ answer.status # "fails"
           /\ Continue(p.file,
                       ScanLoop(p.file, doc[p.file], p.i + 1,
                                Bind(p, answer, doc[p.file]), Append(p.lines, p.i)),
                       RemoveAt(scans, k))
    /\ UNCHANGED <<doc, oracle, calls, events, qryVars, storeVars, mgrVars, depVars>>

\* the oracle's command rejects: the await throws, nothing catches it, and the
\* index call rejects before map.set
OracleThrow(k) ==
    /\ k \in 1..Len(scans)
    /\ LET p == scans[k]
       IN  /\ oracle[p.file].status = "fails"
           /\ scans' = RemoveAt(scans, k)
           /\ outcome' = [outcome EXCEPT ![p.file] = "failed"]
           /\ lastStep' = Step("failed", p.file, <<>>)
    /\ UNCHANGED <<doc, oracle, map, origin, updates, calls, uuids, events, qryVars, storeVars, mgrVars, depVars>>

\* getAllForRange that returns the file-level directives for every range
getAllForRangeWithGlobals(file, range) ==
    LET hit(d) == d.range = GlobalRange \/ RangeIntersection(d.range, range) # NoRange
        kept == SelectSeq(map[file], hit)
    IN  [k \in 1..Len(kept) |-> kept[k].text]

\* getAllForRange(file, range)
getAllForRange(file, range) ==
    LET hit(d) == RangeIntersection(d.range, range) # NoRange
        kept == SelectSeq(map[file], hit)
    IN  [k \in 1..Len(kept) |-> kept[k].text]

\* getForFile(file)
getForFile(file) == [k \in 1..Len(map[file]) |-> map[file][k].text]

\* directives.find((d) => d.id === id): the index of the first directive with
\* the id, 0 when none
FindById(directives, id) ==
    LET hits == {k \in 1..Len(directives) : directives[k].id = id}
    IN  IF hits = {} THEN 0 ELSE CHOOSE k \in hits : \A h \in hits : k <= h

\* what get gives its caller: the record it returns, or the Error it throws
Found(prompt, range) == [thrown |-> FALSE, prompt |-> prompt, range |-> range]
NotFound == [thrown |-> TRUE, prompt |-> <<>>, range |-> NoRange]

\* get that returns the file's first directive whatever its id
getFirst(file, id) ==
    LET directives == map[file]
    IN  IF directives = <<>> THEN NotFound
        ELSE Found(directives[1].text, directives[1].range)

\* get(uri, id), file being uri.fsPath
get(file, id) ==
    LET directives == map[file]
        k == FindById(directives, id)
    IN  IF k = 0 THEN NotFound
        ELSE Found(directives[k].text, directives[k].range)

\* a caller looks a directive up by id
Get(file, id) ==
    /\ query' = [file |-> file, range |-> NoRange, id |-> id]
    /\ result' = get(file, id)
    /\ UNCHANGED <<idxVars, mgrVars, depVars, storeVars>>

\* a caller asks for the directives of a range
GetAllForRange(file, range) ==
    /\ query' = [file |-> file, range |-> range, id |-> NoId]
    /\ result' = getAllForRange(file, range)
    /\ UNCHANGED <<idxVars, mgrVars, depVars, storeVars>>


\* the file the editor works on, and the text of the other file
EditedFile == "/a.ts"
OtherText == <<GlobalLine, NoteLine, AiLine>>

\* a file indexed earlier, whose list a scan of the edited file must leave
\* alone
IndexedFile == "/b.ts"

\* a document of up to MaxLines lines with any answer of the oracle for a
\* document of that many lines, not indexed yet; one index call has been made
\* before, on IndexedFile
InitIndexer ==
    /\ \E text \in Texts(MaxLines) :
         /\ doc = [f \in Files |-> IF f = EditedFile THEN text ELSE OtherText]
         /\ \E answer \in OracleAnswers(LineCount(text)) :
              oracle = [f \in Files |-> IF f = EditedFile THEN answer ELSE OracleNothing]
    /\ map = [f \in Files |->
                IF f = IndexedFile THEN Indexed(f, OtherText, OracleNothing).directives
                ELSE <<>>]
    /\ origin = [f \in Files |->
                   IF f = IndexedFile THEN Indexed(f, OtherText, OracleNothing).lines
                   ELSE <<>>]
    /\ scans = <<>>
    /\ outcome = [f \in Files |-> IF f = IndexedFile THEN "completed" ELSE "none"]
    /\ updates = 1
    /\ calls = 1
    /\ uuids = 0
    /\ lastStep = Step("completed", IndexedFile, map[IndexedFile])
    /\ events = [f \in Files |-> <<>>]
    /\ NoQueryYet
    /\ EmptyStore
    /\ FreshManager(DefaultMaxTokens)
    /\ NoFiles

NextIndexer ==
    \/ Index(EditedFile)
    \/ \E k \in DOMAIN scans : OracleReturn(k)
    \/ \E k \in DOMAIN scans : OracleThrow(k)

SpecIndexer == InitIndexer /\ [][NextIndexer]_vars

-----------------------------------------------------------------------------
(* getAllForRange as a function of the index: every index of up to           *)
(* MaxDirectives directives whose ranges have the forms a scan of a document *)
(* of MaxQueryLines lines binds, queried with each of those ranges           *)

\* the ranges a scan of a document of n lines can bind: the rest of the file
\* below a line, a symbol's range, the global range
BoundRanges(n) ==
    {Range(i + 1, 0, n, 0) : i \in 0..(n - 1)}
    \cup {SymRange(l, e) : l \in 0..(n - 1), e \in 0..(n - 1)}
    \cup {GlobalRange}

\* a directive list with the given ranges; the texts alternate
IndexedList(ranges) ==
    [k \in DOMAIN ranges |->
        Directive(EditedFile, ranges[k], IF k % 2 = 1 THEN <<"fix">> ELSE <<"doc">>, NoId)]

InitQuery ==
    /\ doc = [f \in Files |-> [k \in 1..MaxQueryLines |-> CodeLine]]
    /\ oracle = [f \in Files |-> OracleNothing]
    /\ \E rs \in UNION {[1..k -> BoundRanges(MaxQueryLines)] : k \in 0..MaxDirectives} :
         /\ map = [f \in Files |-> IF f = EditedFile THEN IndexedList(rs) ELSE <<>>]
         /\ origin = [f \in Files |-> IF f = EditedFile THEN [k \in DOMAIN rs |-> 0] ELSE <<>>]
    /\ scans = <<>>
    /\ outcome = [f \in Files |-> "none"]
    /\ updates = 0
    /\ calls = 0
    /\ uuids = 0
    /\ lastStep = NoStep
    /\ events = [f \in Files |-> <<>>]
    /\ NoQueryYet
    /\ EmptyStore
    /\ FreshManager(DefaultMaxTokens)
    /\ NoFiles

NextQuery == \E f \in Files, q \in BoundRanges(MaxQueryLines) : GetAllForRange(f, q)

SpecQuery == InitQuery /\ [][NextQuery]_vars

-----------------------------------------------------------------------------
(* The conversation ledger on its own: up to MaxTurns turns recorded *)

MaxTurns == 11

\* an index nobody has filled, for the specifications that do not scan
IdleIndexer ==
    /\ doc = [f \in Files |-> <<CodeLine>>]
    /\ oracle = [f \in Files |-> OracleNothing]
    /\ map = [f \in Files |-> <<>>]
    /\ origin = [f \in Files |-> <<>>]
    /\ scans = <<>>
    /\ outcome = [f \in Files |-> "none"]
    /\ updates = 0
    /\ calls = 0
    /\ uuids = 0
    /\ lastStep = NoStep
    /\ events = [f \in Files |-> <<>>]
    /\ NoQueryYet
    /\ EmptyStore

InitLedger == IdleIndexer /\ FreshManager(DefaultMaxTokens) /\ NoFiles

\* a caller records a turn: a request that touched no file or one file
Record ==
    /\ Len(recorded) < MaxTurns
    /\ \E files \in {<<>>, <<EditedFile>>} : addConversationTurn("ask", "reply", files)
    /\ UNCHANGED <<candidates, truncation, pending, context, idxVars, qryVars, storeVars, depVars>>

NextLedger == Record

SpecLedger == InitLedger /\ [][NextLedger]_vars

-----------------------------------------------------------------------------
(* EnhancedContextManager: contents, token estimates and budget fitting *)

\* lines that only contents hold: a declaration, a test call, an empty line,
\* the line truncateContent inserts, a numbered row of 40 + k characters, and
\* a minified line of 40000 characters
\* "const total = run()"
DeclLine ==
    Line("none", FALSE, "", NoId, "const total = run()",
         <<"c", "o", "n", "s", "t", " ", "t", "o", "t", "a", "l", " ", "=", " ", "r", "u", "n",
           "(", ")">>, 0)
\* "const id = run()"
IdLine ==
    Line("none", FALSE, "", NoId, "const id = run()",
         <<"c", "o", "n", "s", "t", " ", "i", "d", " ", "=", " ", "r", "u", "n", "(", ")">>, 0)
\* "test(run)"
TestLine ==
    Line("none", FALSE, "", NoId, "test(run)",
         <<"t", "e", "s", "t", "(", "r", "u", "n", ")">>, 0)
BlankLine ==
    Line("none", FALSE, "", NoId, "",
         <<>>, 0)
\* "// ... (content truncated) ..."
MarkerLine ==
    Line("none", TRUE, "", NoId, "... (content truncated) ...",
         <<"/", "/", " ", ".", ".", ".", " ", "(", "c", "o", "n", "t", "e", "n", "t", " ", "t",
           "r", "u", "n", "c", "a", "t", "e", "d", ")", " ", ".", ".", ".">>, 0)
RowLine(k) == Line("none", FALSE, "", NoId, "row", <<"r", "o", "w">>, 37 + k)
WideLine == Line("none", FALSE, "", NoId, "blob", <<"b", "l", "o", "b">>, 39996)

\* a ContextItem (its symbols field, which no step reads back, is left out)
ContextItem(file, range, content, importance, type) ==
    [file |-> file, range |-> range, content |-> content,
     importance |-> importance, type |-> type]

\* null where a ContextItem is expected
NoItem == ContextItem("", NoRange, <<>>, -1, "none")

RECURSIVE SumSizes(_)
SumSizes(lines) ==
    IF lines = <<>> THEN 0 ELSE Head(lines).size + SumSizes(Tail(lines))

\* text.length: the lines and the newlines between them
Length(content) == SumSizes(content) + (Len(content) - 1)

\* estimateTokens(text): Math.ceil(text.length / 4)
estimateTokens(content) == (Length(content) + 3) \div 4

\* calculateTokens: the estimates of a list of items added up
RECURSIVE calculateTokens(_)
calculateTokens(items) ==
    IF items = <<>> THEN 0
    ELSE estimateTokens(Head(items).content) + calculateTokens(Tail(items))

\* the characters of the words a request searches for
Chars(word) ==
    CASE word = "run" -> <<"r", "u", "n">>
      [] word = "test" -> <<"t", "e", "s", "t">>
      [] OTHER -> <<>>

\* n filler characters
Filler(n) == [k \in 1..n |-> "."]

\* s.startsWith(w, i - 1): w stands in s at index i (1-based)
StartsWith(s, i, w) == i + Len(w) - 1 <= Len(s) /\ SubSeq(s, i, i + Len(w) - 1) = w

\* s.includes(w)
Includes(s, w) == \E i \in 1..(Len(s) + 1) : StartsWith(s, i, w)

\* content.toLowerCase().includes(word), for a word that holds no newline:
\* it then stands within one line, and of a line's filler only as many
\* characters as the word has can matter
Mentions(content, word) ==
    LET w == Chars(word)
        hay(line) == line.chars \o Filler(IF line.pad < Len(w) THEN line.pad ELSE Len(w))
    IN  w = <<>> \/ \E k \in 1..Len(content) : Includes(hay(content[k]), w)

\* array.slice(-n): slice(-0) is slice(0), the whole array
SliceFromEnd(seq, n) == IF n = 0 THEN seq ELSE SliceLast(seq, n)

\* truncateContent that cuts to the quota without comparing the line count
truncateContentAlways(item, budget) ==
    IF budget < 100 THEN NoItem
    ELSE LET lines == item.content
             approximateLines == budget \div 10
             keepStart == (approximateLines * 6) \div 10
             keepEnd == (approximateLines * 4) \div 10
         IN  [item EXCEPT !.content =
                 SliceFirst(lines, keepStart) \o <<MarkerLine>>
                 \o SliceFromEnd(lines, keepEnd)]

\* truncateContent keeping the last 60% after the first 40% of the quota
truncateContentTailHeavy(item, budget) ==
    IF budget < 100 THEN NoItem
    ELSE LET lines == item.content
             approximateLines == budget \div 10
         IN  IF Len(lines) <= approximateLines THEN item
             ELSE LET keepStart == (approximateLines * 4) \div 10
                      keepEnd == (approximateLines * 6) \div 10
                  IN  [item EXCEPT !.content =
                          SliceFirst(lines, keepStart) \o <<MarkerLine>>
                          \o SliceFromEnd(lines, keepEnd)]

\* truncateContent(item, maxTokens)
truncateContent(item, budget) ==
    IF budget < 100 THEN NoItem
    ELSE LET lines == item.content
             approximateLines == budget \div 10
         IN  IF Len(lines) <= approximateLines THEN item
             ELSE LET keepStart == (approximateLines * 6) \div 10
                      keepEnd == (approximateLines * 4) \div 10
                  IN  [item EXCEPT !.content =
                          SliceFirst(lines, keepStart) \o <<MarkerLine>>
                          \o SliceFromEnd(lines, keepEnd)]

\* one step of the stable sort: item goes behind every element whose
\* importance is not lower than its own
RECURSIVE InsertByImportance(_, _)
InsertByImportance(sorted, item) ==
    IF sorted = <<>> THEN <<item>>
    ELSE IF Head(sorted).importance >= item.importance
    THEN <<Head(sorted)>> \o InsertByImportance(Tail(sorted), item)
    ELSE <<item>> \o sorted

\* items.sort((a, b) => b.importance - a.importance), a stable sort
RECURSIVE SortByImportance(_)
SortByImportance(items) ==
    IF items = <<>> THEN <<>>
    ELSE InsertByImportance(SortByImportance(SubSeq(items, 1, Len(items) - 1)),
                            items[Len(items)])

\* what the for loop of optimizeContextForTokenLimit ends with: the list it
\* returns and, as history, whether it pushed a truncated item and the budget
\* that was left when it did (or at the end)
Fitted(items, made, remaining) ==
    [items |-> items, made |-> made, remaining |-> remaining]

\* the for loop of optimizeContextForTokenLimit over the sorted items
RECURSIVE FitLoop(_, _, _, _)
FitLoop(items, budget, optimized, tokenCount) ==
    IF items = <<>> THEN Fitted(optimized, FALSE, budget - tokenCount)
    ELSE LET item == Head(items)
             itemTokens == estimateTokens(item.content)
         IN  IF tokenCount + itemTokens <= budget
             THEN FitLoop(Tail(items), budget, Append(optimized, item),
                          tokenCount + itemTokens)
             ELSE IF item.importance > 8000
             THEN LET truncated == truncateContent(item, budget - tokenCount)
                  IN  IF truncated # NoItem
                      THEN Fitted(Append(optimized, truncated), TRUE, budget - tokenCount)
                      ELSE FitLoop(Tail(items), budget, optimized, tokenCount)
             ELSE FitLoop(Tail(items), budget, optimized, tokenCount)

\* optimizeContextForTokenLimit without the sort
optimizeContextUnsorted(items, budget) ==
    FitLoop(items, budget, <<>>, 0)

\* optimizeContextForTokenLimit(items) with this.maxTokens = budget
optimizeContextForTokenLimit(items, budget) ==
    FitLoop(SortByImportance(items), budget, <<>>, 0)

\* step 5 with the total taken over the list as it was before fitting
ReturnContextCountingCandidates(items, history) ==
    LET fit == optimizeContextForTokenLimit(items, maxTokens)
    IN  [candidates |-> items,
         truncation |-> [made |-> fit.made, remaining |-> fit.remaining],
         context |-> ProjectContext(fit.items, calculateTokens(items), history)]

\* step 5 of collectEnhancedContext: the items are fitted, the total is
\* recomputed, and the context is returned with the turns read when the call
\* began
ReturnContext(items, history) ==
    LET fit == optimizeContextForTokenLimit(items, maxTokens)
    IN  [candidates |-> items,
         truncation |-> [made |-> fit.made, remaining |-> fit.remaining],
         context |-> ProjectContext(fit.items, calculateTokens(fit.items), history)]

-----------------------------------------------------------------------------
(* Budget fitting as a function of the candidate list and the budget: every  *)
(* list of up to MaxItems items, each short, tall or wide and of one of      *)
(* three importances, fitted into a small and into the default budget        *)

MaxItems == 2

\* a one-line content, one of 13 numbered rows, and one minified line
ShortContent == <<CodeLine>>
TallContent == [k \in 1..13 |-> RowLine(k)]
WideContent == <<WideLine>>
Contents == {ShortContent, TallContent, WideContent}

\* importances as scoring gives them: 0.5, 0.9, 1.0 and, for a definition
\* item after its boost, 1.3
Importances == {5000, 9000, 10000, 13000}

\* the budgets tried: one that 13 rows overflow, and the default
Budgets == {120, DefaultMaxTokens}

\* the k-th candidate is about the k-th file
CandidateFile(k) == IF k = 1 THEN "/a.ts" ELSE IF k = 2 THEN "/b.ts" ELSE "/a.test.ts"

\* a candidate item with the given content and importance
Candidate(k, content, importance) ==
    ContextItem(CandidateFile(((k - 1) % 3) + 1), Range(0, 0, Len(content), 0), content,
                importance,
                IF importance = 10000 THEN "current"
                ELSE IF importance > 10000 THEN "import" ELSE "related")

CandidateLists ==
    UNION {{[k \in 1..n |-> Candidate(k, c[k], m[k])] :
              c \in [1..n -> Contents], m \in [1..n -> Importances]} : n \in 0..MaxItems}

InitBudget ==
    /\ IdleIndexer
    /\ NothingAnalysed
    /\ NoFiles
    /\ maxTokens \in Budgets
    /\ symbolCache = NothingCached
    /\ conversationHistory = <<>>
    /\ recorded = <<>>
    /\ now = 0
    /\ candidates \in CandidateLists
    /\ truncation = NotFitted
    /\ pending = NoRequest
    /\ context = NoContext

\* the candidate list is fitted into the budget
Fit ==
    /\ truncation = NotFitted
    /\ LET returned == ReturnContext(candidates, SliceLast(conversationHistory, 3))
       IN  /\ truncation' = returned.truncation
           /\ context' = returned.context
    /\ UNCHANGED <<candidates, pending, maxTokens, symbolCache, conversationHistory, recorded, now, idxVars, qryVars, storeVars, depVars>>

NextBudget == Fit

SpecBudget == InitBudget /\ [][NextBudget]_vars

-----------------------------------------------------------------------------
(* EnhancedContextManager: scoring the files of a request *)

\* the importance a + b, as the sum of the two doubles prints: 0.6 + 0.3 is
\* 0.8999999999999999, every other sum the code makes is exact to 1/10000
Plus(a, b) == IF a = 6000 /\ b = 3000 THEN 8999 ELSE a + b

\* importance *= 0.7, as the product prints: 0.7 * 0.7 is 0.48999999999999994
\* and 0.8 * 0.7 is 0.5599999999999999
TimesRecent(a) == IF a \in {7000, 8000} THEN ((a * 7) \div 10) - 1 ELSE (a * 7) \div 10

\* TextDocument.validatePosition: a position is moved into the text
ValidatePosition(text, p) ==
    IF p.line >= LineCount(text)
    THEN Pos(LineCount(text) - 1, LineAt(text, LineCount(text) - 1).size)
    ELSE IF p.character > LineAt(text, p.line).size
    THEN Pos(p.line, LineAt(text, p.line).size)
    ELSE p

\* line.substring(from, to): the characters from..to of a line. A proper
\* part of a line is text only; what scan found on the whole line is not
\* carried over.
PartOfLine(line, from, to) ==
    IF from = 0 /\ to = line.size THEN line
    ELSE LET n == Len(line.chars)
             last == IF to < n THEN to ELSE n
             first == IF from > n THEN from ELSE n
         IN  Line("none", FALSE, "", NoId, "", SubSeq(line.chars, from + 1, last),
                  IF to > first THEN to - first ELSE 0)

\* doc.getText(range)
GetText(text, range) ==
    LET s == ValidatePosition(text, range.start)
        e == ValidatePosition(text, range.end)
    IN  IF s.line = e.line
        THEN <<PartOfLine(LineAt(text, s.line), s.character, e.character)>>
        ELSE <<PartOfLine(LineAt(text, s.line), s.character, LineAt(text, s.line).size)>>
             \o [k \in 1..(e.line - s.line - 1) |-> LineAt(text, s.line + k)]
             \o <<PartOfLine(LineAt(text, e.line), 0, e.character)>>

\* symbolCache.has(doc.fileName): getDocumentSymbols then returns the cached
\* tree without asking the oracle
HasSymbols(file) == symbolCache[file].status = "tree"

\* what getDocumentSymbols(doc) resolves to: the cached tree, else the
\* oracle's tree, undefined when the command rejects or gives undefined
getDocumentSymbols(file) ==
    IF HasSymbols(file) THEN symbolCache[file]
    ELSE IF oracle[file].status = "tree" THEN oracle[file] ELSE OracleNothing

\* symbolCache once getDocumentSymbols(doc) has resolved: a tree the oracle
\* was asked for is stored, an undefined answer is not
Remembering(file) ==
    IF file \in Files /\ ~HasSymbols(file) /\ oracle[file].status = "tree"
    THEN [symbolCache EXCEPT ![file] = oracle[file]]
    ELSE symbolCache

\* no symbol found
NoSym == Sym(NoRange, <<>>)

\* findContaining(syms) of getSmartRange: the first symbol containing the
\* position, or its innermost child that does
RECURSIVE findContaining(_, _)
findContaining(syms, position) ==
    IF syms = <<>> THEN NoSym
    ELSE LET sym == Head(syms)
         IN  IF ContainsPos(sym.range, position)
             THEN LET child == findContaining(sym.children, position)
                  IN  IF child # NoSym THEN child ELSE sym
             ELSE findContaining(Tail(syms), position)

\* getSmartRange(doc, position)
getSmartRange(file, position) ==
    LET symbols == getDocumentSymbols(file)
    IN  IF symbols.status # "tree" THEN NoRange
        ELSE findContaining(symbols.symbols, position).range

\* findContainingSymbol(syms) of expandRangeToSymbol
RECURSIVE findContainingSymbol(_, _)
findContainingSymbol(syms, range) ==
    IF syms = <<>> THEN NoSym
    ELSE LET sym == Head(syms)
         IN  IF ContainsRange(sym.range, range)
             THEN LET child == findContainingSymbol(sym.children, range)
                  IN  IF child # NoSym THEN child ELSE sym
             ELSE findContainingSymbol(Tail(syms), range)

\* expandRangeToSymbol(doc, range)
expandRangeToSymbol(file, range) ==
    LET symbols == getDocumentSymbols(file)
        containingSymbol == findContainingSymbol(symbols.symbols, range)
    IN  IF symbols.status # "tree" THEN range
        ELSE IF containingSymbol # NoSym THEN containingSymbol.range
        ELSE range

\* new vscode.Range(0, 0, doc.lineCount, 0)
WholeFile(text) == Range(0, 0, LineCount(text), 0)

\* the range of getCurrentFileContext: the selection, or for an empty
\* selection what getSmartRange gave, or the whole file as it then is
CurrentRange(editor) ==
    LET selection == editor.selection
        smart == getSmartRange(editor.file, selection.start)
    IN  IF selection.start = selection.end
        THEN IF smart # NoRange THEN smart ELSE WholeFile(doc[editor.file])
        ELSE selection

\* the item getCurrentFileContext returns for the range it computed: the
\* text is read when getDocumentSymbols has returned
CurrentItem(editor, range) ==
    ContextItem(editor.file, range, GetText(doc[editor.file], range), 10000, "current")

\* getCurrentFileContext() run without a suspension, as it runs when the
\* file's tree is cached or the oracle has just given it
getCurrentFileContext(editor) ==
    IF editor = NoEditor THEN NoItem ELSE CurrentItem(editor, CurrentRange(editor))

\* file.includes(".test.") || file.includes(".spec.")
IsTestPath(file) == file \in {"/a.test.ts"}

\* getFileContext(file, intent): null when the file cannot be opened
getFileContext(file, intent) ==
    IF file \notin Files THEN NoItem
    ELSE LET text == doc[file]
             scored == Plus(5000, IF intent # "" /\ Mentions(text, intent) THEN 3000 ELSE 0)
             importance == Plus(scored, IF getForFile(file) # <<>> THEN 2000 ELSE 0)
         IN  ContextItem(file, Range(0, 0, LineCount(text), 0), text, importance,
                         IF IsTestPath(file) THEN "test" ELSE "related")

\* getFileContextForRange(file, range, intent) up to its getDocumentSymbols:
\* the range expanded and its text read, not scored yet
ExpandedContext(file, range) ==
    LET expandedRange == expandRangeToSymbol(file, range)
    IN  ContextItem(file, expandedRange, GetText(doc[file], expandedRange), 0, "related")

\* getFileContextForRange from there on: the item scored by its text and by
\* the directives of its range
ScoredContext(found, intent) ==
    LET scored ==
            Plus(6000, IF intent # "" /\ Mentions(found.content, intent) THEN 2000 ELSE 0)
    IN  [found EXCEPT !.importance =
            Plus(scored, IF getAllForRange(found.file, found.range) # <<>> THEN 2000 ELSE 0)]

\* shouldIncludeContext(item, context)
shouldIncludeContext(item, items) ==
    IF \E k \in 1..Len(items) : items[k].file = item.file THEN FALSE
    ELSE IF item.importance > 3000 THEN TRUE
    ELSE item.type = "test" /\ \E k \in 1..Len(items) : Mentions(items[k].content, "test")

\* \w and \s
WordChars ==
    {"a", "b", "c", "d", "e", "f", "g", "h", "i", "j", "k", "l", "m", "n", "o", "p", "q",
     "r", "s", "t", "u", "v", "w", "x", "y", "z", "0", "1", "2", "3", "4", "5", "6", "7",
     "8", "9", "_"}
SpaceChars == {" ", "\n", "\t"}

\* the index after the run of characters of `class` that starts at i
RECURSIVE RunEnd(_, _, _)
RunEnd(s, i, class) ==
    IF i <= Len(s) /\ s[i] \in class THEN RunEnd(s, i + 1, class) ELSE i

\* doc.getText(range) as one string: the lines joined by newlines (a run of
\* filler characters is kept as one of them)
RECURSIVE Flat(_)
Flat(content) ==
    IF content = <<>> THEN <<>>
    ELSE LET line == Head(content)
             chars == line.chars \o Filler(IF line.pad > 0 THEN 1 ELSE 0)
         IN  IF Len(content) = 1 THEN chars ELSE chars \o <<"\n">> \o Flat(Tail(content))

\* the keywords of the first two text patterns
TypeKeywords ==
    {<<"c", "l", "a", "s", "s">>, <<"i", "n", "t", "e", "r", "f", "a", "c", "e">>,
     <<"t", "y", "p", "e">>, <<"e", "n", "u", "m">>}
BindingKeywords ==
    {<<"f", "u", "n", "c", "t", "i", "o", "n">>, <<"c", "o", "n", "s", "t">>,
     <<"l", "e", "t">>, <<"v", "a", "r">>}
FunctionWord == <<"f", "u", "n", "c", "t", "i", "o", "n">>

\* /(?:k1|k2|...)\s+(\w+)/g from index i on: the names captured, in order
RECURSIVE KeywordMatches(_, _, _)
KeywordMatches(s, i, keywords) ==
    IF i > Len(s) THEN <<>>
    ELSE LET fits(kw) ==
                 /\ StartsWith(s, i, kw)
                 /\ RunEnd(s, i + Len(kw), SpaceChars) > i + Len(kw)
                 /\ RunEnd(s, RunEnd(s, i + Len(kw), SpaceChars), WordChars)
                        > RunEnd(s, i + Len(kw), SpaceChars)
         IN  IF \E kw \in keywords : fits(kw)
             THEN LET kw == CHOOSE kw \in keywords : fits(kw)
                      from == RunEnd(s, i + Len(kw), SpaceChars)
                      to == RunEnd(s, from, WordChars)
                  IN  <<SubSeq(s, from, to - 1)>> \o KeywordMatches(s, to, keywords)
             ELSE KeywordMatches(s, i + 1, keywords)

\* /(\w+)\s*[:=]\s*(?:function|\()/g from index i on: the names captured
RECURSIVE AssignMatches(_, _)
AssignMatches(s, i) ==
    IF i > Len(s) THEN <<>>
    ELSE LET to == RunEnd(s, i, WordChars)
             sign == RunEnd(s, to, SpaceChars)
             value == RunEnd(s, sign + 1, SpaceChars)
             fits == /\ to > i
                     /\ sign <= Len(s) /\ s[sign] \in {":", "="}
                     /\ \/ StartsWith(s, value, FunctionWord)
                        \/ StartsWith(s, value, <<"(">>)
         IN  IF fits
             THEN <<SubSeq(s, i, to - 1)>>
                      \o AssignMatches(s, IF StartsWith(s, value, FunctionWord)
                                          THEN value + Len(FunctionWord) ELSE value + 1)
             ELSE AssignMatches(s, i + 1)

\* the names extractSymbolsFromContent finds: one per symbol of the oracle's
\* tree (at any depth) whose range intersects the range, then, pattern by
\* pattern, the names the text patterns capture in the range's text, those of
\* one or two characters dropped (the two import patterns need the word
\* import, which no text here holds). It asks the oracle itself, inside the
\* try that also holds the text patterns: when the oracle rejects, the catch
\* returns the empty list.
extractSymbolsFromContent(file, range) ==
    LET answer == oracle[file]
        all == flatten(answer.symbols)
        hit(s) == RangeIntersection(range, s.range) # NoRange
        content == Flat(GetText(doc[file], range))
        long(name) == Len(name) > 2
        fromTree == SelectSeq(all, hit)
        fromText == KeywordMatches(content, 1, TypeKeywords)
                        \o KeywordMatches(content, 1, BindingKeywords)
                        \o AssignMatches(content, 1)
    IN  IF answer = OracleFails THEN <<>>
        ELSE [k \in 1..Len(fromTree) |-> fromTree[k].name] \o SelectSeq(fromText, long)

\* a SymbolReference: where the language server or the text search found a
\* symbol
SymbolReference(file, range) == [file |-> file, range |-> range]

\* Array.from(new Set(list)): first occurrences, in order
RECURSIVE Distinct(_)
Distinct(list) ==
    IF list = <<>> THEN <<>>
    ELSE LET front == Distinct(SubSeq(list, 1, Len(list) - 1))
             last == list[Len(list)]
         IN  IF \E k \in 1..Len(front) : front[k] = last THEN front ELSE Append(front, last)

\* turns.flatMap((turn) => turn.filesModified)
RECURSIVE FilesModified(_)
FilesModified(turns) ==
    IF turns = <<>> THEN <<>> ELSE Head(turns).filesModified \o FilesModified(Tail(turns))

\* getRecentlyModifiedFiles()
getRecentlyModifiedFiles == SliceLast(FilesModified(conversationHistory), 10)

\* findRelatedFiles up to its findSimilarFiles: the cached or analysed
\* dependencies, the importers, the test files when the intent holds "test",
\* and the recently modified files as the ledger then gives them
RelatedSoFar(dependencies, intent, imports, tests) ==
    dependencies \o imports
        \o (IF Includes(Chars(intent), Chars("test")) THEN tests ELSE <<>>)
        \o getRecentlyModifiedFiles

\* findRelatedFiles(currentFile, intent) from there on: the similar files
\* but the current one, duplicates dropped, ten at most
findRelatedFiles(currentFile, related, similar) ==
    LET other(f) == f # currentFile
    IN  SliceFirst(Distinct(related \o SelectSeq(similar, other)), 10)

\* one turn of the loop of getRecentlyModifiedContext: the item of a file
\* with its importance lowered, nothing for a file that cannot be read
RecentContext(file) ==
    LET found == getFileContext(file, "")
    IN  IF found # NoItem THEN <<[found EXCEPT !.importance = TimesRecent(@)]>> ELSE <<>>

\* the files getRecentlyModifiedContext builds items for: recentFiles.slice(0, 3)
RecentFiles == SliceFirst(getRecentlyModifiedFiles, 3)

-----------------------------------------------------------------------------
(* Document events: the host opens, changes and saves documents; the        *)
(* extension runs whatever it subscribed to these events, and no caller      *)
(* invokes index otherwise. Up to MaxEvents events.                          *)

MaxEvents == 3

\* the number of events delivered so far
RECURSIVE EventCount(_)
EventCount(files) ==
    IF files = {} THEN 0
    ELSE LET f == CHOOSE g \in files : TRUE
         IN  Len(events[f]) + EventCount(files \ {f})

\* the listeners the DirectiveIndexer constructor and activate register for
\* document events: none, so an event reaches no code of the indexer
OnDocumentEvent(f) ==
    UNCHANGED <<map, origin, scans, outcome, updates, calls, uuids, lastStep>>

\* workspace.onDidOpenTextDocument
DidOpenTextDocument(f) ==
    /\ EventCount(Files) < MaxEvents
    /\ events' = [events EXCEPT ![f] = Append(@, "open")]
    /\ OnDocumentEvent(f)
    /\ UNCHANGED <<doc, oracle, qryVars, storeVars, mgrVars, depVars>>

\* workspace.onDidChangeTextDocument: the document now holds `text`
DidChangeTextDocument(f, text) ==
    /\ EventCount(Files) < MaxEvents
    /\ text # doc[f]
    /\ doc' = [doc EXCEPT ![f] = text]
    /\ events' = [events EXCEPT ![f] = Append(@, "change")]
    /\ OnDocumentEvent(f)
    /\ UNCHANGED <<oracle, qryVars, storeVars, mgrVars, depVars>>

\* workspace.onDidSaveTextDocument
DidSaveTextDocument(f) ==
    /\ EventCount(Files) < MaxEvents
    /\ events' = [events EXCEPT ![f] = Append(@, "save")]
    /\ OnDocumentEvent(f)
    /\ UNCHANGED <<doc, oracle, qryVars, storeVars, mgrVars, depVars>>

-----------------------------------------------------------------------------
(* Context assembly. Two classes are named EnhancedContextManager: the one  *)
(* contextManager.ts exports, whose collectEnhancedContext searches the      *)
(* codebase for the symbols of the current item (step 2), and the one        *)
(* chatPanel.ts declares and the chat panel constructs, which has every      *)
(* other step in the same words and no symbol search. A call of either is    *)
(* followed from await to await: at each of them the host may deliver a      *)
(* document change. Under SpecAssembler a caller of contextManager.ts's      *)
(* class records up to MaxCallerTurns turns with addConversationTurn and     *)
(* makes the manager's first call of collectEnhancedContext. The searches    *)
(* of step 2 keep their answers in symbolDefinitionCache and                 *)
(* symbolReferenceCache under the key file:line:character:name; the oracle's *)
(* symbols are selected where their ranges start, so the queries of one call *)
(* have different keys, a first call finds none of them cached, and the two  *)
(* caches are not kept as state. Under SpecPanel handleUserPrompt asks the   *)
(* panel's manager for a context, passes it to the provider and records the  *)
(* turn when the provider has replied, up to MaxRequests requests recorded   *)
(* or in flight, and requests overlap.                                       *)

MaxRequests == 2
MaxCallerTurns == 1

\* the workspace: a source file, a file of notes with a global directive, a
\* test file
WorkspaceText(f) ==
    IF f = "/a.ts" THEN <<DeclLine, TrailLine>>
    ELSE IF f = "/b.ts" THEN OtherText
    ELSE <<TestLine>>

\* the oracle knows no symbol, or one symbol over /a.ts with a child on its
\* last line
WorkspaceOracles ==
    {[f \in Files |-> OracleNothing],
     [f \in Files |->
        IF f = "/a.ts"
        THEN OracleTree(<<Sym(SymRange(0, 1), <<Sym(SymRange(1, 1), <<>>)>>)>>)
        ELSE OracleNothing]}

\* the keys of the dependency cache: the current file of a request, "" when
\* no editor is active
CacheKeys == Files \cup {""}

\* a manager just constructed over an indexer that holds no directive (in
\* the extension nothing calls index); no call made yet
InitAssembler ==
    /\ doc = [f \in Files |-> WorkspaceText(f)]
    /\ oracle \in WorkspaceOracles
    /\ map = [f \in Files |-> <<>>]
    /\ origin = [f \in Files |-> <<>>]
    /\ scans = <<>>
    /\ outcome = [f \in Files |-> "none"]
    /\ updates = 0
    /\ calls = 0
    /\ uuids = 0
    /\ lastStep = NoStep
    /\ events = [f \in Files |-> <<>>]
    /\ NoQueryYet
    /\ EmptyStore
    /\ NoFiles
    /\ dependencyGraph = [f \in CacheKeys |-> NotCached]
    /\ analysis = NoAnalysis
    /\ maxTokens = DefaultMaxTokens
    /\ symbolCache = NothingCached
    /\ conversationHistory = <<>>
    /\ recorded = <<>>
    /\ now = 0
    /\ candidates = <<>>
    /\ truncation = NotFitted
    /\ pending = NoRequest
    /\ context = NoContext

\* the inputs of a request
Intents == {"run", "test"}
Editors == {NoEditor, Editor("/a.ts", Range(0, 0, 0, 0))}

\* what findSymbolDefinitions may return for one name: nothing, a position at
\* the top of /b.ts (as the text search reports), or the name run in the test
\* file (as the definition provider reports)
DefinitionLists ==
    {<<>>, <<SymbolReference("/b.ts", Range(0, 0, 0, 0))>>,
     <<SymbolReference("/a.test.ts", Range(0, 5, 0, 8))>>}

\* what findSymbolReferences may return for one name: nothing, or the first
\* line of /b.ts
ReferenceLists == {<<>>, <<SymbolReference("/b.ts", Range(0, 0, 1, 0))>>}

\* the text an edit leaves in a file of the workspace
EditedText(f) ==
    IF f = "/a.ts" THEN <<TrailLine>>
    ELSE IF f = "/b.ts" THEN <<NoteLine>>
    ELSE <<TestLine, TestLine>>

\* what the two searches return for each of n names, one after the other
SearchAnswers(n) ==
    [1..n -> [definitions : DefinitionLists, references : ReferenceLists]]

\* searchCodebaseForSymbols: for each extracted name in turn, what
\* findSymbolDefinitions returned is pushed to the definitions and the first
\* five of what findSymbolReferences returned to the references
RECURSIVE searchCodebaseForSymbols(_)
searchCodebaseForSymbols(answers) ==
    IF answers = <<>> THEN [definitions |-> <<>>, references |-> <<>>]
    ELSE LET rest == searchCodebaseForSymbols(Tail(answers))
         IN  [definitions |-> Head(answers).definitions \o rest.definitions,
              references |-> SliceFirst(Head(answers).references, 5) \o rest.references]

\* a location with the loop of step 2 that will read it
Located(locations, kind) ==
    [k \in DOMAIN locations |->
        [file |-> locations[k].file, range |-> locations[k].range, kind |-> kind]]

\* a collectEnhancedContext call: whether its class searches for symbols
\* (search: contextManager.ts's does, chatPanel.ts's does not), the await it
\* is suspended at (stage), the turns read when it began, the editor step 1 found,
\* the range step 1 computed, the file findRelatedFiles is called with, the
\* items pushed so far, the names searchCodebaseForSymbols extracted, the
\* locations step 2 has still to read, the item
\* getFileContextForRange has read and not scored yet, the files
\* findRelatedFiles has gathered or the files the running loop has still to
\* read, the items getRecentlyModifiedContext has built, and the context once
\* returned
Request(search, intent, history) ==
    [search |-> search, stage |-> "started", intent |-> intent, history |-> history,
     editor |-> NoEditor,
     range |-> NoRange, currentFile |-> "", items |-> <<>>, names |-> <<>>,
     locations |-> <<>>, found |-> NoItem, files |-> <<>>, contexts |-> <<>>, context |-> NoContext]

\* step 5: the items getRecentlyModifiedContext built are pushed, the list is
\* fitted and the context returned to the caller
Finish(r) ==
    LET items == r.items \o r.contexts
    IN  [r EXCEPT !.stage = "returned", !.items = items, !.contexts = <<>>,
                  !.context = ReturnContext(items, r.history).context]

\* step 4 calls getRecentlyModifiedContext, which reads the ledger and awaits
\* getFileContext for the first of up to three files; with no file it returns
\* at once
BeginRecent(r) ==
    IF RecentFiles = <<>> THEN Finish(r)
    ELSE [r EXCEPT !.stage = "recent", !.files = RecentFiles]

\* the loop of step 3 awaits getFileContext for its next file, or is over
NextRelated(r) ==
    IF r.files # <<>> THEN [r EXCEPT !.stage = "related"] ELSE BeginRecent(r)

\* step 3 calls findRelatedFiles, whose analyzeDependencies looks into the
\* cache: on a hit it takes the cached edges and goes on to the importer
\* search, on a miss it awaits openTextDocument
BeginRelated(r) ==
    IF dependencyGraph[r.currentFile].cached
    THEN [r EXCEPT !.stage = "analysed", !.files = dependencyGraph[r.currentFile].edges]
    ELSE [r EXCEPT !.stage = "opening"]

\* the loops of step 2 await getFileContextForRange for their next location,
\* or are over
NextLocation(r) ==
    IF r.locations # <<>> THEN [r EXCEPT !.stage = "expanding"] ELSE BeginRelated(r)

\* getCurrentFileContext has returned the item: it is pushed. In
\* contextManager.ts step 2 calls searchCodebaseForSymbols, which awaits
\* openTextDocument and, in extractSymbolsFromContent, the oracle; in
\* chatPanel.ts findRelatedFiles is called next
AfterCurrent(r, item) ==
    LET pushed == [r EXCEPT !.range = item.range, !.currentFile = item.file,
                            !.items = <<item>>]
    IN  IF r.search THEN [pushed EXCEPT !.stage = "extracting"] ELSE BeginRelated(pushed)

\* getFileContextForRange has returned the item of the first location left:
\* the loop admits it or not, with the boost and type of a definition or of
\* a reference
Admit(r, found) ==
    LET kind == Head(r.locations).kind
        item == ScoredContext(found, r.intent)
        pushed == IF kind = "definition"
                  THEN [item EXCEPT !.type = "import", !.importance = Plus(@, 3000)]
                  ELSE [item EXCEPT !.type = "related", !.importance = Plus(@, 1000)]
    IN  [r EXCEPT !.items = IF shouldIncludeContext(item, r.items)
                            THEN Append(r.items, pushed) ELSE r.items,
                  !.locations = Tail(r.locations),
                  !.found = NoItem]

\* a caller makes the first call of collectEnhancedContext(intent) on a
\* manager of contextManager.ts's class: it reads the last three turns and
\* awaits getWorkspaceInfo
CollectEnhancedContext(intent) ==
    /\ pending = NoRequest
    /\ pending' = Append(pending, Request(TRUE, intent, SliceLast(conversationHistory, 3)))
    /\ UNCHANGED <<maxTokens, symbolCache, conversationHistory, recorded, now, candidates,
                   truncation, context, idxVars, qryVars, storeVars, depVars>>

\* a caller calls addConversationTurn of contextManager.ts's class for a
\* turn that modified one file
CallerRecordsTurn(file) ==
    /\ Len(recorded) < MaxCallerTurns
    /\ addConversationTurn("ask", "reply", <<file>>)
    /\ UNCHANGED <<candidates, truncation, pending, context, idxVars, qryVars, storeVars,
                   depVars>>

\* handleUserPrompt(userText) calls collectContext, which calls
\* collectEnhancedContext(userText) of the manager the panel constructed:
\* it reads the last three turns and awaits getWorkspaceInfo
HandleUserPrompt(intent) ==
    /\ Len(recorded) + Len(pending) < MaxRequests
    /\ pending' = Append(pending, Request(FALSE, intent, SliceLast(conversationHistory, 3)))
    /\ UNCHANGED <<maxTokens, symbolCache, conversationHistory, recorded, now, candidates,
                   truncation, context, idxVars, qryVars, storeVars, depVars>>

\* getWorkspaceInfo has returned: step 1 reads the active editor. With no
\* editor there is no current item and step 3 begins; with the file's tree
\* cached getCurrentFileContext runs to its end; else it awaits the oracle,
\* in getSmartRange for an empty selection
WorkspaceInfoReturns(k, editor) ==
    /\ pending[k].stage = "started"
    /\ LET r == [pending[k] EXCEPT !.editor = editor]
       IN  pending' = [pending EXCEPT ![k] =
               IF editor = NoEditor THEN BeginRelated(r)
               ELSE IF HasSymbols(editor.file)
               THEN AfterCurrent(r, getCurrentFileContext(editor))
               ELSE IF editor.selection.start = editor.selection.end
               THEN [r EXCEPT !.stage = "smart"]
               ELSE [r EXCEPT !.stage = "symbols", !.range = editor.selection]]
    /\ UNCHANGED <<maxTokens, symbolCache, conversationHistory, recorded, now, candidates,
                   truncation, context, idxVars, qryVars, storeVars, depVars>>

\* the oracle answers getSmartRange: with a tree, which is cached, the range
\* is computed and the item built at once; with none the range is the whole
\* file as it is now, and getDocumentSymbols asks the oracle again
SmartRangeReturns(k) ==
    /\ pending[k].stage = "smart"
    /\ LET r == pending[k]
           file == r.editor.file
       IN  /\ symbolCache' = Remembering(file)
           /\ pending' = [pending EXCEPT ![k] =
                  IF getDocumentSymbols(file).status = "tree"
                  THEN AfterCurrent(r, getCurrentFileContext(r.editor))
                  ELSE [r EXCEPT !.stage = "symbols", !.range = WholeFile(doc[file])]]
    /\ UNCHANGED <<maxTokens, conversationHistory, recorded, now, candidates, truncation,
                   context, idxVars, qryVars, storeVars, depVars>>

\* the oracle answers getDocumentSymbols of getCurrentFileContext: the text
\* of the range computed before is read from the document as it is now
CurrentSymbolsReturn(k) ==
    /\ pending[k].stage = "symbols"
    /\ LET r == pending[k]
       IN  /\ symbolCache' = Remembering(r.editor.file)
           /\ pending' = [pending EXCEPT ![k] =
                             AfterCurrent(r, CurrentItem(r.editor, r.range))]
    /\ UNCHANGED <<maxTokens, conversationHistory, recorded, now, candidates, truncation,
                   context, idxVars, qryVars, storeVars, depVars>>

\* the oracle answers extractSymbolsFromContent, which reads the text of the
\* current item's range as it is now: with no name extracted nothing is
\* searched and step 3 begins, else the definition search is awaited
SymbolsExtracted(k) ==
    /\ pending[k].stage = "extracting"
    /\ LET r == pending[k]
           names == extractSymbolsFromContent(r.currentFile, r.range)
       IN  pending' = [pending EXCEPT ![k] =
               IF names = <<>> THEN BeginRelated(r)
               ELSE [r EXCEPT !.stage = "searching", !.names = names]]
    /\ UNCHANGED <<maxTokens, symbolCache, conversationHistory, recorded, now, candidates,
                   truncation, context, idxVars, qryVars, storeVars, depVars>>

\* searchCodebaseForSymbols returns what the language server and the text
\* search found, name by name (every name is asked of the host: the call is
\* the manager's first and each of its queries has its own cache key): the
\* definitions and the first three references are the locations step 2
\* reads, in that order
SymbolsSearched(k) ==
    /\ pending[k].stage = "searching"
    /\ \E answers \in SearchAnswers(Len(pending[k].names)) :
          LET results == searchCodebaseForSymbols(answers)
          IN  pending' = [pending EXCEPT ![k] =
                  NextLocation([pending[k] EXCEPT !.names = <<>>, !.locations =
                      Located(results.definitions, "definition")
                          \o Located(SliceFirst(results.references, 3), "reference")])]
    /\ UNCHANGED <<maxTokens, symbolCache, conversationHistory, recorded, now, candidates,
                   truncation, context, idxVars, qryVars, storeVars, depVars>>

\* getFileContextForRange has the document of its location and the symbols
\* expandRangeToSymbol asked for: the range is expanded and its text read
\* from the document as it is now. With the tree cached the item is scored
\* and the loop goes on; else getDocumentSymbols asks the oracle again. A
\* file that cannot be opened gives no item.
LocationOpened(k) ==
    /\ pending[k].stage = "expanding"
    /\ LET r == pending[k]
           location == Head(r.locations)
           file == location.file
       IN  /\ symbolCache' = Remembering(file)
           /\ pending' = [pending EXCEPT ![k] =
                  IF file \notin Files
                  THEN NextLocation([r EXCEPT !.locations = Tail(r.locations)])
                  ELSE IF getDocumentSymbols(file).status = "tree"
                  THEN NextLocation(Admit(r, ExpandedContext(file, location.range)))
                  ELSE [r EXCEPT !.stage = "scoring",
                                 !.found = ExpandedContext(file, location.range)]]
    /\ UNCHANGED <<maxTokens, conversationHistory, recorded, now, candidates, truncation,
                   context, idxVars, qryVars, storeVars, depVars>>

\* the oracle answers getDocumentSymbols of getFileContextForRange: the item
\* read before is scored, and the loop admits it or not and goes on
LocationSymbolsReturn(k) ==
    /\ pending[k].stage = "scoring"
    /\ LET r == pending[k]
       IN  /\ symbolCache' = Remembering(r.found.file)
           /\ pending' = [pending EXCEPT ![k] = NextLocation(Admit(r, r.found))]
    /\ UNCHANGED <<maxTokens, conversationHistory, recorded, now, candidates, truncation,
                   context, idxVars, qryVars, storeVars, depVars>>

\* openTextDocument of analyzeDependencies returns: no text of the workspace
\* holds an import, so the empty edge set is stored for the file; with no
\* current file it rejects and nothing is stored. The importer search is
\* awaited next.
OpenCurrentFile(k) ==
    /\ pending[k].stage = "opening"
    /\ dependencyGraph' =
          IF pending[k].currentFile \in Files
          THEN [dependencyGraph EXCEPT ![pending[k].currentFile] =
                                           [cached |-> TRUE, edges |-> <<>>]]
          ELSE dependencyGraph
    /\ pending' = [pending EXCEPT ![k] = [@ EXCEPT !.stage = "analysed", !.files = <<>>]]
    /\ UNCHANGED <<fs, sources, analysis, maxTokens, symbolCache, conversationHistory,
                   recorded, now, candidates, truncation, context, idxVars, qryVars,
                   storeVars>>

\* findFilesThatImport and, for an intent that holds "test", findTestFiles
\* have returned: findRelatedFiles reads the recently modified files from the
\* ledger as it is now and awaits findSimilarFiles
ImportersFound(k, imports, tests) ==
    /\ pending[k].stage = "analysed"
    /\ pending' = [pending EXCEPT ![k] =
           [@ EXCEPT !.stage = "similar",
                     !.files = RelatedSoFar(@, pending[k].intent, imports, tests)]]
    /\ UNCHANGED <<maxTokens, symbolCache, conversationHistory, recorded, now, candidates,
                   truncation, context, idxVars, qryVars, storeVars, depVars>>

\* findSimilarFiles has returned: findRelatedFiles returns its list and the
\* loop of step 3 begins
SimilarFound(k, similar) ==
    /\ pending[k].stage = "similar"
    /\ pending' = [pending EXCEPT ![k] =
           NextRelated([pending[k] EXCEPT !.files =
               findRelatedFiles(pending[k].currentFile, pending[k].files, similar)])]
    /\ UNCHANGED <<maxTokens, symbolCache, conversationHistory, recorded, now, candidates,
                   truncation, context, idxVars, qryVars, storeVars, depVars>>

\* getFileContext of step 3 has the document and its symbols: the item is
\* built from the text as it is now and admitted or not; the loop goes on,
\* and after the last file step 4 begins
RelatedRead(k) ==
    /\ pending[k].stage = "related"
    /\ LET r == pending[k]
           file == Head(r.files)
           item == getFileContext(file, r.intent)
       IN  /\ symbolCache' = Remembering(file)
           /\ pending' = [pending EXCEPT ![k] =
                  NextRelated([r EXCEPT !.items =
                                   IF item # NoItem /\ shouldIncludeContext(item, r.items)
                                   THEN Append(r.items, item) ELSE r.items,
                               !.files = Tail(r.files)])]
    /\ UNCHANGED <<maxTokens, conversationHistory, recorded, now, candidates, truncation,
                   context, idxVars, qryVars, storeVars, depVars>>

\* getFileContext of getRecentlyModifiedContext has the document and its
\* symbols: the item is built from the text as it is now; after the last
\* file the items are pushed and step 5 returns the context
RecentRead(k) ==
    /\ pending[k].stage = "recent"
    /\ LET r == pending[k]
           file == Head(r.files)
           next == [r EXCEPT !.contexts = @ \o RecentContext(file), !.files = Tail(r.files)]
       IN  /\ symbolCache' = Remembering(file)
           /\ pending' = [pending EXCEPT ![k] =
                             IF next.files = <<>> THEN Finish(next) ELSE next]
    /\ UNCHANGED <<maxTokens, conversationHistory, recorded, now, candidates, truncation,
                   context, idxVars, qryVars, storeVars, depVars>>

\* handleUserPrompt with a context of no item: "No context found", and the
\* call returns without asking the provider and without recording a turn
NoContextFound(k) ==
    /\ pending[k].stage = "returned"
    /\ pending[k].context.items = <<>>
    /\ pending' = RemoveAt(pending, k)
    /\ UNCHANGED <<maxTokens, symbolCache, conversationHistory, recorded, now, candidates,
                   truncation, context, idxVars, qryVars, storeVars, depVars>>

\* the provider has replied: the turn is recorded with the file of the
\* context's first item
RecordReply(k) ==
    /\ pending[k].stage = "returned"
    /\ pending[k].context.items # <<>>
    /\ addConversationTurn(pending[k].intent, "reply", <<pending[k].context.items[1].file>>)
    /\ pending' = RemoveAt(pending, k)
    /\ UNCHANGED <<candidates, truncation, context, idxVars, qryVars, storeVars, depVars>>

\* the provider has rejected: the error is shown and no turn is recorded
ProviderFails(k) ==
    /\ pending[k].stage = "returned"
    /\ pending[k].context.items # <<>>
    /\ pending' = RemoveAt(pending, k)
    /\ UNCHANGED <<maxTokens, symbolCache, conversationHistory, recorded, now, candidates,
                   truncation, context, idxVars, qryVars, storeVars, depVars>>

NextAssembler ==
    \/ \E intent \in Intents \cup {""} : CollectEnhancedContext(intent)
    \/ \E file \in Files : CallerRecordsTurn(file)
    \/ \E k \in DOMAIN pending, editor \in Editors : WorkspaceInfoReturns(k, editor)
    \/ \E k \in DOMAIN pending : SmartRangeReturns(k)
    \/ \E k \in DOMAIN pending : CurrentSymbolsReturn(k)
    \/ \E k \in DOMAIN pending : SymbolsExtracted(k)
    \/ \E k \in DOMAIN pending : SymbolsSearched(k)
    \/ \E k \in DOMAIN pending : LocationOpened(k)
    \/ \E k \in DOMAIN pending : LocationSymbolsReturn(k)
    \/ \E k \in DOMAIN pending : OpenCurrentFile(k)
    \/ \E k \in DOMAIN pending :
          \E imports \in {<<>>, <<"/b.ts">>}, tests \in {<<>>, <<"/a.test.ts">>} :
              ImportersFound(k, imports, tests)
    \/ \E k \in DOMAIN pending, similar \in {<<>>, <<"/a.test.ts">>} : SimilarFound(k, similar)
    \/ \E k \in DOMAIN pending : RelatedRead(k)
    \/ \E k \in DOMAIN pending : RecentRead(k)
    \/ \E f \in Files : DidChangeTextDocument(f, EditedText(f))

SpecAssembler == InitAssembler /\ [][NextAssembler]_vars

\* the extension is activated and the chat panel constructed: its manager is
\* new, and nothing calls index, so the indexer holds no directive
InitPanel == InitAssembler

NextPanel ==
    \/ \E intent \in Intents : HandleUserPrompt(intent)
    \/ \E k \in DOMAIN pending, editor \in Editors : WorkspaceInfoReturns(k, editor)
    \/ \E k \in DOMAIN pending : SmartRangeReturns(k)
    \/ \E k \in DOMAIN pending : CurrentSymbolsReturn(k)
    \/ \E k \in DOMAIN pending : OpenCurrentFile(k)
    \/ \E k \in DOMAIN pending :
          \E imports \in {<<>>, <<"/b.ts">>}, tests \in {<<>>, <<"/a.test.ts">>} :
              ImportersFound(k, imports, tests)
    \/ \E k \in DOMAIN pending, similar \in {<<>>, <<"/a.test.ts">>} : SimilarFound(k, similar)
    \/ \E k \in DOMAIN pending : RelatedRead(k)
    \/ \E k \in DOMAIN pending : RecentRead(k)
    \/ \E k \in DOMAIN pending : NoContextFound(k)
    \/ \E k \in DOMAIN pending : RecordReply(k)
    \/ \E k \in DOMAIN pending : ProviderFails(k)
    \/ \E f \in Files : DidChangeTextDocument(f, EditedText(f))

SpecPanel == InitPanel /\ [][NextPanel]_vars

-----------------------------------------------------------------------------
(* Claims about the Directive Indexer: C5 under SpecQuery, C6 to C10 under  *)
(* SpecIndexer                                                              *)

\* the positions and ranges of a document of up to MaxLines lines
GridPositions == {Pos(l, c) : l \in 0..MaxLines, c \in 0..1}
QueryRanges ==
    {r \in [start : GridPositions, end : GridPositions] : IsBeforeOrEqual(r.start, r.end)}

\* two ranges have a position in common
SharePosition(r, s) == \E p \in GridPositions : ContainsPos(r, p) /\ ContainsPos(s, p)

\* every symbol of the oracle's tree for a file, at any depth
SymbolsOf(f) ==
    LET all == flatten(oracle[f].symbols)
    IN  {all[k] : k \in 1..Len(all)}

\* the top-level symbols of the oracle's tree for a file
TopSymbolsOf(f) == {oracle[f].symbols[k] : k \in 1..Len(oracle[f].symbols)}

\* the k-th directive of a file was read on a prompt or single-line directive
BoundBySymbolRule(f, k) == LineAt(doc[f], origin[f][k]).form \in {"prompt", "line"}

\* the texts, in index order, of the directives of a file picked by `keep`
TextsWhere(f, keep(_)) ==
    LET kept == SelectSeq(map[f], keep)
    IN  [k \in 1..Len(kept) |-> kept[k].text]

\* C5: getAllForRange(file, range) returns the texts of exactly the
\* directives of the file whose bound range has a position in common with the
\* query range: no text comes from a directive whose range does not intersect
\* it, and every directive whose range equals it has its text returned.
C5_RangeQuery ==
    query # NoQuery =>
        LET common(d) == SharePosition(d.range, query.range)
        IN  /\ result = TextsWhere(query.file, common)
            /\ \A k \in 1..Len(map[query.file]) :
                  map[query.file][k].range = query.range
                  => \E n \in 1..Len(result) : result[n] = map[query.file][k].text

\* C5 witness: a query answered with the text of a directive whose range
\* equals the query range, while another directive of the file is left out
C5_Witness ==
    /\ query # NoQuery
    /\ Len(result) = 1
    /\ Len(map[query.file]) = 2
    /\ \E k \in 1..2 : map[query.file][k].range = query.range

\* C6: a prompt or single-line directive on line i, with a symbol of the
\* oracle's tree declared on line i+1, is bound to exactly that symbol's range.
C6_BindsFollowingSymbol ==
    \A f \in Files : \A k \in 1..Len(map[f]) :
        (BoundBySymbolRule(f, k) /\ oracle[f].status = "tree")
        => \A s \in SymbolsOf(f) :
              s.range.start.line = origin[f][k] + 1 => map[f][k].range = s.range

\* C7: every indexed directive's range starts and ends on a line of the
\* document: 0 <= line <= lineCount - 1.
C7_RangesInDocument ==
    \A f \in Files : \A k \in 1..Len(map[f]) :
        LET r == map[f][k].range
        IN  /\ 0 <= r.start.line /\ r.start.line <= LineCount(doc[f]) - 1
            /\ 0 <= r.end.line /\ r.end.line <= LineCount(doc[f]) - 1

\* C8: every indexed directive's range is the range of a top-level symbol
\* that starts after the directive's line, or the rest of the file from one
\* line below it when no symbol starts after it, or (0,0)-(0,0) for a global
\* directive.
C8_ThreeForms ==
    \A f \in Files : \A k \in 1..Len(map[f]) :
        LET i == origin[f][k]
            r == map[f][k].range
            after == {s \in SymbolsOf(f) : s.range.start.line > i}
        IN  IF BoundBySymbolRule(f, k)
            THEN \/ \E s \in TopSymbolsOf(f) : s.range.start.line > i /\ r = s.range
                 \/ after = {} /\ r = [start |-> Pos(i + 1, 0), end |-> Pos(LineCount(doc[f]), 0)]
            ELSE r = [start |-> Pos(0, 0), end |-> Pos(0, 0)]

\* C9: when the oracle's lookup fails or gives no symbol, index does not
\* fail, and once it has completed every prompt or single-line directive read
\* on line i is bound to the rest of the file from line i+1.
C9_OracleUnavailable ==
    \A f \in Files :
        (oracle[f].status \in {"fails", "undefined"} \/ oracle[f].symbols = <<>>)
        => /\ outcome[f] # "failed"
           /\ \A k \in 1..Len(map[f]) :
                 BoundBySymbolRule(f, k)
                 => map[f][k].range =
                      [start |-> Pos(origin[f][k] + 1, 0), end |-> Pos(LineCount(doc[f]), 0)]

\* C10: every directive read from a global block opener has the range
\* (0,0)-(0,0), whichever line the opener is on.
C10_GlobalZeroRange ==
    \A f \in Files : \A k \in 1..Len(map[f]) :
        GLOBAL_TAG(LineAt(doc[f], origin[f][k]))
        => map[f][k].range = [start |-> Pos(0, 0), end |-> Pos(0, 0)]

\* C10 witness: an indexed global directive whose opener is not on line 0
C10_Witness ==
    \E k \in 1..Len(map[EditedFile]) :
        /\ GLOBAL_TAG(LineAt(doc[EditedFile], origin[EditedFile][k]))
        /\ origin[EditedFile][k] > 0

-----------------------------------------------------------------------------
(* Claims about the conversation ledger, checked under SpecLedger *)

\* C3: after n addConversationTurn calls the history is exactly the last
\* min(n, 10) recorded turns, oldest first, and never longer than 10.
C3_LastTenTurns ==
    LET n == Len(recorded)
        m == IF n < 10 THEN n ELSE 10
    IN  /\ Len(conversationHistory) = m
        /\ \A k \in 1..m : conversationHistory[k] = recorded[n - m + k]
        /\ Len(conversationHistory) <= 10

\* C3 witness: an eleventh turn has been recorded and the first one evicted
C3_Witness ==
    /\ Len(recorded) = 11
    /\ Len(conversationHistory) = 10
    /\ conversationHistory[1] = recorded[2]
    /\ conversationHistory[1] # recorded[1]

-----------------------------------------------------------------------------
(* Claims about budget fitting, checked under SpecBudget *)

\* C1: the token estimates of the items optimizeContextForTokenLimit returns
\* add up to at most maxTokens, a truncated item left aside; there is at most
\* one truncated item, and its estimate is at most the budget that remained
\* when it was truncated.
C1_WithinBudget ==
    truncation # NotFitted =>
        LET items == context.items
            n == Len(items)
            whole == IF truncation.made THEN n - 1 ELSE n
        IN  /\ calculateTokens(SubSeq(items, 1, whole)) <= maxTokens
            /\ truncation.made
               => estimateTokens(items[n].content) <= truncation.remaining

-----------------------------------------------------------------------------
(* Claims about context assembly: C2 under SpecPanel, C4 under SpecAssembler *)

\* the calls whose context has been returned
Returned == {k \in DOMAIN pending : pending[k].stage = "returned"}

\* C2: in the context returned by collectEnhancedContext no two items have
\* the same file, the items appended for recently modified files included.
C2_NoDuplicateFiles ==
    \A k \in Returned :
        LET items == pending[k].context.items
        IN  \A i \in 1..Len(items) : \A j \in 1..Len(items) :
                i < j => items[i].file # items[j].file

\* C4: when the request was made with an active editor, the first item of
\* the returned context is the current item, of importance 1.0.
C4_CurrentFirst ==
    \A k \in Returned :
        pending[k].editor # NoEditor =>
            /\ pending[k].context.items # <<>>
            /\ pending[k].context.items[1].type = "current"
            /\ pending[k].context.items[1].importance = 10000

-----------------------------------------------------------------------------
(* Claims about re-scans and notifications, checked under SpecIndexer *)

\* the k-th directive of a file was read on a prompt line with no id="..."
DrewItsId(f, k) ==
    LET line == LineAt(doc[f], origin[f][k])
    IN  PROMPT_TAG(line) /\ line.id = NoId

\* an index call on file f completes in this step
Completes(f) ==
    /\ updates' = updates + 1
    /\ lastStep'.kind = "completed"
    /\ lastStep'.file = f

\* C11: an index call that completes on a file an earlier call completed on,
\* with the same text and the same oracle answer, leaves the file with the
\* same directives in the same order (file, range, text), and the same id for
\* every directive but those whose prompt line carries no id.
C11_RescanIdempotent ==
    [][\A f \in Files :
          (outcome[f] = "completed" /\ Completes(f))
          => /\ Len(map'[f]) = Len(map[f])
             /\ origin'[f] = origin[f]
             /\ \A k \in 1..Len(map[f]) :
                   /\ map'[f][k].file = map[f][k].file
                   /\ map'[f][k].range = map[f][k].range
                   /\ map'[f][k].text = map[f][k].text
                   /\ ~DrewItsId(f, k) => map'[f][k].id = map[f][k].id]_vars

\* C11 witness: a second index call has completed on the edited file, which
\* holds two directives, one of them a prompt directive whose id was drawn
\* anew
C11_Witness ==
    /\ calls = 3
    /\ updates = 3
    /\ lastStep = Step("completed", EditedFile, map[EditedFile])
    /\ Len(map[EditedFile]) >= 2
    /\ \E k \in 1..Len(map[EditedFile]) : map[EditedFile][k].id > UuidBase

\* two directive lists are the same but for ids drawn by crypto.randomUUID()
SameButDrawnIds(a, b) ==
    /\ Len(a) = Len(b)
    /\ \A k \in 1..Len(a) :
          /\ a[k].file = b[k].file
          /\ a[k].range = b[k].range
          /\ a[k].text = b[k].text
          /\ a[k].id = b[k].id \/ (a[k].id >= UuidBase /\ b[k].id >= UuidBase)

\* C12: an index call that completes on a file leaves that file with exactly
\* the list a scan of its text gives (nothing of the previous list is kept
\* beside it), and leaves the list of every other file as it was; the lists
\* change in no other step.
C12_ReplacesOneFile ==
    [][/\ \A f \in Files :
             Completes(f)
             => /\ SameButDrawnIds(map'[f], Indexed(f, doc[f], oracle[f]).directives)
                /\ \A g \in Files \ {f} : map'[g] = map[g]
       /\ map' # map => \E f \in Files : Completes(f)]_vars

\* C12 witness: a second index call has completed on the edited file, whose
\* list was not empty before, while the other indexed file holds a directive
C12_Witness ==
    /\ updates = 3
    /\ lastStep.kind = "completed"
    /\ lastStep.file = EditedFile
    /\ map[EditedFile] # <<>>
    /\ map[IndexedFile] # <<>>

-----------------------------------------------------------------------------
(* The document events on their own: up to MaxEvents events *)

\* the texts an edit may leave in the document
EditTexts ==
    {<<CodeLine>>, <<AiLine>>, <<PromptLine, CodeLine>>, <<GlobalLine, NoteLine, CodeLine>>}

\* the extension has been activated; no document event yet
InitEvents == IdleIndexer /\ FreshManager(DefaultMaxTokens) /\ NoFiles

NextEvents ==
    \/ \E f \in {EditedFile, IndexedFile} : DidOpenTextDocument(f)
    \/ \E text \in EditTexts : DidChangeTextDocument(EditedFile, text)
    \/ \E f \in {EditedFile, IndexedFile} : DidSaveTextDocument(f)

SpecEvents == InitEvents /\ [][NextEvents]_vars

\* C13: once a document has been opened, changed or saved, a scan of it is
\* in flight or the file's list is what a scan of its current text gives.
C13_EventsRescan ==
    \A f \in Files :
        events[f] # <<>>
        => \/ \E k \in 1..Len(scans) : scans[k].file = f
           \/ SameButDrawnIds(map[f], Indexed(f, doc[f], oracle[f]).directives)

\* the number of index calls that have ended, completed or failed
Ended == calls - Len(scans)

\* C14: a step in which an index call completes fires exactly one update
\* notification, and the subscriber it notifies reads the file's new list;
\* no other step fires a notification.
C14_OneNotification ==
    [][/\ (Ended' = Ended + 1 /\ lastStep'.kind = "completed")
          => /\ updates' = updates + 1
             /\ lastStep'.seen = map'[lastStep'.file]
       /\ updates' # updates
          => Ended' = Ended + 1 /\ lastStep'.kind = "completed"]_vars

\* C14 witness: a second index call on the edited file has completed and
\* notified, leaving a list with no drawn id, the same as the one before
C14_Witness ==
    /\ updates = 3
    /\ Ended = 3
    /\ lastStep.kind = "completed"
    /\ lastStep.file = EditedFile
    /\ lastStep.seen # <<>>
    /\ \A k \in 1..Len(map[EditedFile]) : map[EditedFile][k].id < UuidBase


-----------------------------------------------------------------------------
(* get as a function of the index: every document of up to MaxLines lines,   *)
(* scanned to its end, then looked up by each id a scan can give and by one  *)
(* no scan gives, in the edited file, in a file indexed earlier and in a     *)
(* file never indexed                                                        *)

\* the ids a caller asks for: the explicit one, those a scan of MaxLines lines
\* can draw, and one more that no directive has
LookupIds == {ExplicitId} \cup {UuidBase + n : n \in 0..MaxLines}

InitLookup ==
    /\ \E text \in Texts(MaxLines) :
         doc = [f \in Files |-> IF f = EditedFile THEN text ELSE OtherText]
    /\ oracle = [f \in Files |-> OracleNothing]
    /\ map = [f \in Files |->
                IF f \in {EditedFile, IndexedFile} THEN Indexed(f, doc[f], oracle[f]).directives
                ELSE <<>>]
    /\ origin = [f \in Files |->
                   IF f \in {EditedFile, IndexedFile} THEN Indexed(f, doc[f], oracle[f]).lines
                   ELSE <<>>]
    /\ scans = <<>>
    /\ outcome = [f \in Files |-> IF f \in {EditedFile, IndexedFile} THEN "completed" ELSE "none"]
    /\ updates = 2
    /\ calls = 2
    /\ uuids = 0
    /\ lastStep = Step("completed", EditedFile, map[EditedFile])
    /\ events = [f \in Files |-> <<>>]
    /\ NoQueryYet
    /\ EmptyStore
    /\ FreshManager(DefaultMaxTokens)
    /\ NoFiles

NextLookup == \E f \in Files, id \in LookupIds : Get(f, id)

SpecLookup == InitLookup /\ [][NextLookup]_vars

\* the indexes of the directives of a file that have the id
WithId(f, id) == {k \in 1..Len(map[f]) : map[f][k].id = id}

\* C15: a lookup by id returns the prompt and the range of a directive of the
\* file's current list that has the id, signals not-found exactly when the
\* list holds no directive with the id (a file never indexed has the empty
\* list), and leaves the index as it was
C15_GetById ==
    [][query' # query \/ result' # result =>
         LET f == query'.file
             id == query'.id
         IN  /\ result'.thrown <=> WithId(f, id) = {}
             /\ ~result'.thrown =>
                  \E k \in WithId(f, id) :
                     /\ result'.prompt = map[f][k].text
                     /\ result'.range = map[f][k].range
             /\ UNCHANGED idxVars]_vars

\* a lookup by a drawn id found the second directive of a list of two or more
C15_Witness ==
    /\ query.file = EditedFile
    /\ query.id > UuidBase
    /\ Len(map[EditedFile]) >= 2
    /\ map[EditedFile][1].id # query.id
    /\ ~result.thrown
    /\ result.range = map[EditedFile][2].range
    /\ result.range # map[EditedFile][1].range

-----------------------------------------------------------------------------
(* Import resolution: resolveImportPath, stat by stat, while files appear   *)
(* on disk and vanish                                                        *)

\* path.dirname of a file path
Dirname(file) == SubSeq(file.segments, 1, Len(file.segments) - 1)

\* path.resolve(basePath, importPath): "." and an empty segment stay, ".."
\* climbs (the root is its own parent), any other segment descends
RECURSIVE PathResolve(_, _)
PathResolve(base, specifier) ==
    IF specifier = <<>> THEN base
    ELSE LET head == Head(specifier)
             next == IF head = DotSeg \/ head = <<>> THEN base
                     ELSE IF head = DotDotSeg
                          THEN (IF base = <<>> THEN base ELSE SubSeq(base, 1, Len(base) - 1))
                          ELSE Append(base, head)
         IN  PathResolve(next, Tail(specifier))

\* importPath.startsWith("."): the first character of the specifier, which
\* is the first character of its first segment
StartsWithDot(specifier) ==
    /\ specifier # <<>>
    /\ Head(specifier) # <<>>
    /\ Head(Head(specifier)) = "."

Extensions == <<".ts", ".tsx", ".js", ".jsx", ".json">>
IndexExtensions == <<".ts", ".tsx", ".js", ".jsx">>

\* resolved + ext, and path.join(resolved, `index${ext}`)
DirectPath(resolved, ext) ==
    IF resolved = <<>> THEN Path(<<<<>>>>, ext) ELSE Path(resolved, ext)
IndexPath(resolved, ext) == Path(Append(resolved, IndexSeg), ext)

\* vscode.workspace.fs.stat resolves for the path
Stat(path) == path \in fs

NoResolution == Path(<<>>, "null")

\* the candidates with the index files put before the direct ones
CandidatePathsIndexFirst(importPath, fromFile) ==
    IF StartsWithDot(importPath)
    THEN LET resolved == PathResolve(Dirname(fromFile), importPath)
         IN  [k \in DOMAIN IndexExtensions |-> IndexPath(resolved, IndexExtensions[k])]
                 \o [k \in DOMAIN Extensions |-> DirectPath(resolved, Extensions[k])]
    ELSE <<>>

\* the paths resolveImportPath stats, in the order of its two loops; a
\* specifier that does not start with "." has none
CandidatePaths(importPath, fromFile) ==
    IF StartsWithDot(importPath)
    THEN LET resolved == PathResolve(Dirname(fromFile), importPath)
         IN  [k \in DOMAIN Extensions |-> DirectPath(resolved, Extensions[k])]
                 \o [k \in DOMAIN IndexExtensions |-> IndexPath(resolved, IndexExtensions[k])]
    ELSE <<>>

\* a resolveImportPath call in flight, awaiting the stat of its k-th
\* candidate; disturbed: the disk has changed since the call was made
ResolveCall(importPath, fromFile) ==
    [call |-> "resolve", importPath |-> importPath, fromFile |-> fromFile, k |-> 1,
     disturbed |-> FALSE]

\* what a resolveImportPath call returned
Resolution(importPath, fromFile, path, disturbed) ==
    [call |-> "resolve", importPath |-> importPath, fromFile |-> fromFile,
     result |-> path, disturbed |-> disturbed]

\* resolveImportPath(importPath, fromFile) is called: a specifier that does
\* not start with "." gives null at once, any other has its first candidate
\* statted. The call writes nothing, so calls are followed one at a time.
resolveImportPath(importPath, fromFile) ==
    /\ pending = NoRequest
    /\ IF CandidatePaths(importPath, fromFile) = <<>>
       THEN /\ analysis' = Resolution(importPath, fromFile, NoResolution, FALSE)
            /\ UNCHANGED pending
       ELSE /\ analysis' = NoAnalysis
            /\ pending' = <<ResolveCall(importPath, fromFile)>>
    /\ UNCHANGED <<fs, sources, dependencyGraph, maxTokens, symbolCache, conversationHistory, recorded,
                   now, candidates, truncation, context, idxVars, qryVars, storeVars>>

\* the stat a resolveImportPath call awaits is answered from the disk as it
\* is now: the candidate is returned when it is there; otherwise the next
\* one is statted, and null is returned after the last
ResolveStatReturns(t) ==
    /\ pending[t].call = "resolve"
    /\ LET call == pending[t]
           paths == CandidatePaths(call.importPath, call.fromFile)
       IN  IF Stat(paths[call.k])
           THEN /\ analysis' = Resolution(call.importPath, call.fromFile, paths[call.k],
                                          call.disturbed)
                /\ pending' = RemoveAt(pending, t)
           ELSE IF call.k = Len(paths)
           THEN /\ analysis' = Resolution(call.importPath, call.fromFile, NoResolution,
                                          call.disturbed)
                /\ pending' = RemoveAt(pending, t)
           ELSE /\ pending' = [pending EXCEPT ![t] = [@ EXCEPT !.k = @ + 1]]
                /\ UNCHANGED analysis
    /\ UNCHANGED <<fs, sources, dependencyGraph, maxTokens, symbolCache, conversationHistory, recorded,
                   now, candidates, truncation, context, idxVars, qryVars, storeVars>>

\* the calls in flight once the disk has changed
Disturbed(inFlight) ==
    [t \in DOMAIN inFlight |->
        IF inFlight[t].call = "resolve" THEN [inFlight[t] EXCEPT !.disturbed = TRUE]
        ELSE inFlight[t]]

\* a file is created on disk or deleted
CreateFile(path) ==
    /\ path \notin fs
    /\ fs' = fs \cup {path}
    /\ pending' = Disturbed(pending)
    /\ UNCHANGED <<sources, dependencyGraph, analysis, maxTokens, symbolCache, conversationHistory,
                   recorded, now, candidates, truncation, context, idxVars, qryVars, storeVars>>

DeleteFile(path) ==
    /\ path \in fs
    /\ fs' = fs \ {path}
    /\ pending' = Disturbed(pending)
    /\ UNCHANGED <<sources, dependencyGraph, analysis, maxTokens, symbolCache, conversationHistory,
                   recorded, now, candidates, truncation, context, idxVars, qryVars, storeVars>>

\* the specifiers met: two spellings of a sibling module, a module of the
\* parent directory, a package, a package whose name starts with a dot
Specifiers ==
    {<<DotSeg, UtilsSeg>>, <<DotDotSeg, SrcSeg, UtilsSeg>>, <<DotDotSeg, UtilsSeg>>,
     <<VscodeSeg>>, <<PrismaSeg, ClientSeg>>}

\* the paths that may be on disk: six candidates of the sibling module, two
\* of the parent directory's and one below the hidden directory
DiskPaths ==
    {DirectPath(<<ProjSeg, SrcSeg, UtilsSeg>>, ext) : ext \in {".ts", ".js", ".json"}}
    \cup {IndexPath(<<ProjSeg, SrcSeg, UtilsSeg>>, ext) : ext \in {".ts", ".tsx", ".js"}}
    \cup {DirectPath(<<ProjSeg, UtilsSeg>>, ".js"), IndexPath(<<ProjSeg, UtilsSeg>>, ".ts")}
    \cup {IndexPath(<<ProjSeg, SrcSeg, PrismaSeg, ClientSeg>>, ".js")}

InitResolver ==
    /\ IdleIndexer
    /\ FreshManager(DefaultMaxTokens)
    /\ fs \in SUBSET DiskPaths
    /\ sources = [f \in SourceFiles |-> Unreadable]

NextResolver ==
    \/ \E importPath \in Specifiers : resolveImportPath(importPath, SourceFile)
    \/ \E t \in DOMAIN pending : ResolveStatReturns(t)
    \/ \E path \in DiskPaths : CreateFile(path)
    \/ \E path \in DiskPaths : DeleteFile(path)

SpecResolver == InitResolver /\ [][NextResolver]_vars

\* the candidates of a resolved specifier in the order the contract gives
\* them: the five direct ones, then the four index files
CandidatesInOrder(resolved) ==
    <<DirectPath(resolved, ".ts"), DirectPath(resolved, ".tsx"), DirectPath(resolved, ".js"),
      DirectPath(resolved, ".jsx"), DirectPath(resolved, ".json"),
      IndexPath(resolved, ".ts"), IndexPath(resolved, ".tsx"), IndexPath(resolved, ".js"),
      IndexPath(resolved, ".jsx")>>

\* a call of resolveImportPath returns in this step
Resolved == analysis' # analysis /\ analysis'.call = "resolve"

\* C16: for a relative specifier resolveImportPath returns the first of the
\* candidates resolved.ts, .tsx, .js, .jsx, .json, resolved/index.ts, .tsx,
\* .js, .jsx that exists on the filesystem, and no resolution when none
\* exists. The filesystem is the one the call met: when the disk changed
\* while the call was suspended, what it returns is still one of the
\* candidates, and one that is on disk when the call returns.
C16_FirstExistingCandidate ==
    [][(Resolved /\ StartsWithDot(analysis'.importPath)) =>
          LET paths == CandidatesInOrder(PathResolve(Dirname(analysis'.fromFile),
                                                     analysis'.importPath))
              found == {k \in DOMAIN paths : paths[k] \in fs}
          IN  /\ analysis'.result # NoResolution =>
                    \E k \in found : analysis'.result = paths[k]
              /\ ~analysis'.disturbed =>
                    IF found = {} THEN analysis'.result = NoResolution
                    ELSE \E k \in found :
                            /\ analysis'.result = paths[k]
                            /\ \A h \in found : k <= h]_vars

\* ./utils resolved to utils/index.tsx on a disk that did not change during
\* the call, while utils/index.js is on disk too
C16_Witness ==
    /\ analysis.call = "resolve"
    /\ analysis.importPath = <<DotSeg, UtilsSeg>>
    /\ ~analysis.disturbed
    /\ analysis.result = IndexPath(<<ProjSeg, SrcSeg, UtilsSeg>>, ".tsx")
    /\ IndexPath(<<ProjSeg, SrcSeg, UtilsSeg>>, ".js") \in fs


-----------------------------------------------------------------------------
(* The dependency cache: analyzeDependencies calls, suspended at             *)
(* openTextDocument and at every stat, overlap with each other and with      *)
(* clearCache while the source is edited and files appear on disk and vanish *)

\* the specifiers left from the first one that starts with ".": for any
\* other, resolveImportPath gives null without a stat
RECURSIVE SkipPackages(_)
SkipPackages(specifiers) ==
    IF specifiers = <<>> \/ StartsWithDot(Head(specifiers)) THEN specifiers
    ELSE SkipPackages(Tail(specifiers))

\* dependencies.add(resolved)
AddOnce(list, path) ==
    IF \E k \in DOMAIN list : list[k] = path THEN list ELSE Append(list, path)

\* an analyzeDependencies call in flight: awaiting openTextDocument, or the
\* stat of the k-th candidate of the first of the specifiers left
AnalyzeCall(filePath) ==
    [call |-> "analyze", file |-> filePath, stage |-> "open", specifiers |-> <<>>, k |-> 0,
     dependencies |-> <<>>]

\* what an analyzeDependencies call returned, and whether it read the file
Analysis(filePath, edges, read) ==
    [call |-> "analyze", file |-> filePath, edges |-> edges, read |-> read]

\* the call t goes on with the specifiers left: the next relative one has its
\* first candidate statted; when none is left the set is stored and returned
GoOn(t, specifiers, dependencies) ==
    LET left == SkipPackages(specifiers)
        filePath == pending[t].file
    IN  IF left = <<>>
        THEN /\ dependencyGraph' = [dependencyGraph EXCEPT
                                      ![filePath] = [cached |-> TRUE, edges |-> dependencies]]
             /\ analysis' = Analysis(filePath, dependencies, TRUE)
             /\ pending' = RemoveAt(pending, t)
        ELSE /\ pending' = [pending EXCEPT ![t] =
                               [@ EXCEPT !.stage = "stat", !.specifiers = left, !.k = 1,
                                         !.dependencies = dependencies]]
             /\ UNCHANGED <<dependencyGraph, analysis>>

\* analyzeDependencies that never looks into the cache
analyzeDependenciesAfresh(filePath) ==
    /\ Len(pending) < MaxInFlight
    /\ pending' = Append(pending, AnalyzeCall(filePath))
    /\ UNCHANGED <<fs, sources, dependencyGraph, analysis, maxTokens, symbolCache, conversationHistory,
                   recorded, now, candidates, truncation, context, idxVars, qryVars, storeVars>>

\* analyzeDependencies(filePath) is called: the cached edges are returned, or
\* openTextDocument is awaited
analyzeDependencies(filePath) ==
    /\ IF dependencyGraph[filePath].cached
       THEN /\ analysis' = Analysis(filePath, dependencyGraph[filePath].edges, FALSE)
            /\ UNCHANGED pending
       ELSE /\ Len(pending) < MaxInFlight
            /\ pending' = Append(pending, AnalyzeCall(filePath))
            /\ UNCHANGED analysis
    /\ UNCHANGED <<fs, sources, dependencyGraph, maxTokens, symbolCache, conversationHistory, recorded,
                   now, candidates, truncation, context, idxVars, qryVars, storeVars>>

\* openTextDocument returns: the import matches, then the require matches of
\* the text as it is now are resolved one after the other; when it rejects,
\* the catch returns no edge and stores nothing
OpenReturns(t) ==
    /\ pending[t].call = "analyze"
    /\ pending[t].stage = "open"
    /\ LET text == sources[pending[t].file]
       IN  IF text.readable
           THEN GoOn(t, text.imports \o text.requires, <<>>)
           ELSE /\ analysis' = Analysis(pending[t].file, <<>>, TRUE)
                /\ pending' = RemoveAt(pending, t)
                /\ UNCHANGED dependencyGraph
    /\ UNCHANGED <<fs, sources, maxTokens, symbolCache, conversationHistory, recorded, now, candidates,
                   truncation, context, idxVars, qryVars, storeVars>>

\* the stat awaited by the resolveImportPath call of an analysis is answered
\* from the disk as it is now
AnalyzeStatReturns(t) ==
    /\ pending[t].call = "analyze"
    /\ pending[t].stage = "stat"
    /\ LET call == pending[t]
           paths == CandidatePaths(Head(call.specifiers), call.file)
       IN  IF Stat(paths[call.k])
           THEN GoOn(t, Tail(call.specifiers), AddOnce(call.dependencies, paths[call.k]))
           ELSE IF call.k = Len(paths)
           THEN GoOn(t, Tail(call.specifiers), call.dependencies)
           ELSE /\ pending' = [pending EXCEPT ![t] = [@ EXCEPT !.k = @ + 1]]
                /\ UNCHANGED <<dependencyGraph, analysis>>
    /\ UNCHANGED <<fs, sources, maxTokens, symbolCache, conversationHistory, recorded, now, candidates,
                   truncation, context, idxVars, qryVars, storeVars>>

\* clearCache(): the symbol cache and the dependency graph are emptied (the
\* definition and reference caches it also empties are not part of the
\* model). The calls in flight go on.
clearCache ==
    /\ symbolCache' = NothingCached
    /\ dependencyGraph' = [f \in DOMAIN dependencyGraph |-> NotCached]
    /\ analysis' = [call |-> "clear"]
    /\ UNCHANGED <<fs, sources, maxTokens, conversationHistory, recorded, now, candidates,
                   truncation, pending, context, idxVars, qryVars, storeVars>>

\* the texts the source file passes through: one import, two imports and
\* two requires, or one import of a package whose name starts with a dot
SourceTexts ==
    {Source(<<<<DotSeg, UtilsSeg>>>>, <<>>),
     Source(<<<<DotSeg, UtilsSeg>>, <<VscodeSeg>>>>, <<<<DotSeg, LibSeg>>, <<DotSeg, UtilsSeg>>>>),
     Source(<<<<PrismaSeg, ClientSeg>>>>, <<>>)}

\* the user edits the source file, or it is deleted or created
EditSource(filePath, text) ==
    /\ sources[filePath] # text
    /\ sources' = [sources EXCEPT ![filePath] = text]
    /\ UNCHANGED <<fs, dependencyGraph, analysis, mgrVars, idxVars, qryVars, storeVars>>

\* the module files created and deleted
ModulePaths ==
    {DirectPath(<<ProjSeg, SrcSeg, UtilsSeg>>, ".ts"), IndexPath(<<ProjSeg, SrcSeg, UtilsSeg>>, ".ts")}

InitDependencies ==
    /\ IdleIndexer
    /\ FreshManager(DefaultMaxTokens)
    /\ fs = {DirectPath(<<ProjSeg, SrcSeg, UtilsSeg>>, ".ts")}
    /\ sources = [f \in SourceFiles |->
                    IF f = SourceFile THEN Source(<<<<DotSeg, UtilsSeg>>>>, <<>>) ELSE Unreadable]

NextDependencies ==
    \/ analyzeDependencies(SourceFile)
    \/ \E t \in DOMAIN pending : OpenReturns(t)
    \/ \E t \in DOMAIN pending : AnalyzeStatReturns(t)
    \/ clearCache
    \/ \E text \in SourceTexts \cup {Unreadable} : EditSource(SourceFile, text)
    \/ \E path \in ModulePaths : CreateFile(path)
    \/ \E path \in ModulePaths : DeleteFile(path)

SpecDependencies == InitDependencies /\ [][NextDependencies]_vars

\* a call of analyzeDependencies returns in this step
Analysed == analysis' # analysis /\ analysis'.call = "analyze"

\* C17 as stated: once analyzeDependencies has returned for a file, every
\* later call before clearCache returns the same edges and does not read the
\* file (analysis holds the last return since clearCache)
C17_CachedOnceCalled ==
    [][Analysed =>
         ((analysis.call = "analyze" /\ analysis.file = analysis'.file) =>
              /\ analysis'.edges = analysis.edges
              /\ ~analysis'.read)]_vars

\* C17: a call of analyzeDependencies made while the cache holds an entry for
\* the file returns the entry's edges without reading the file, whatever
\* edits and filesystem changes happened since the entry was stored; a call
\* made while it holds none reads the file. An entry is stored only when a
\* call that read the file returns, with the edges it returns; a call that
\* cannot open the file returns no edge and stores nothing; entries are
\* removed only by clearCache.
C17_CachedOnceRead ==
    [][/\ (Analysed /\ ~analysis'.read) =>
             /\ dependencyGraph[analysis'.file].cached
             /\ analysis'.edges = dependencyGraph[analysis'.file].edges
             /\ UNCHANGED <<pending, dependencyGraph>>
       /\ Len(pending') > Len(pending) =>
             ~dependencyGraph[pending'[Len(pending')].file].cached
       /\ Len(pending') < Len(pending) =>
             /\ analysis'.call = "analyze" /\ analysis'.read
             /\ \/ dependencyGraph' = [dependencyGraph EXCEPT ![analysis'.file] =
                                          [cached |-> TRUE, edges |-> analysis'.edges]]
                \/ analysis'.edges = <<>> /\ UNCHANGED dependencyGraph
       /\ dependencyGraph' # dependencyGraph =>
             \/ Len(pending') < Len(pending)
             \/ dependencyGraph' = [f \in DOMAIN dependencyGraph |-> NotCached]]_vars

\* a call answered from the cache with an edge to utils.ts although the file
\* can no longer be opened and utils.ts is gone
C17_Witness ==
    /\ analysis.call = "analyze"
    /\ analysis.file = SourceFile
    /\ ~analysis.read
    /\ analysis.edges = <<DirectPath(<<ProjSeg, SrcSeg, UtilsSeg>>, ".ts")>>
    /\ sources[SourceFile] = Unreadable
    /\ fs = {}

-----------------------------------------------------------------------------
(* Claims about admission, checked under SpecPanel, and about the token     *)
(* total, checked under SpecBudget                                           *)

\* C18: every item of the list handed to budget fitting, whichever stage
\* appended it, has a file that no item before it has, and has an importance
\* above 0.3 or is of type test while an item before it mentions "test".
C18_AdmissionRule ==
    \A r \in Returned :
        LET items == pending[r].items
        IN  \A k \in 1..Len(items) :
                /\ \A j \in 1..(k - 1) : items[j].file # items[k].file
                /\ \/ items[k].importance > 3000
                   \/ /\ items[k].type = "test"
                      /\ \E j \in 1..(k - 1) : Mentions(items[j].content, "test")

\* ceil(n / 4) for a length n
CeilQuarter(n) == (n \div 4) + (IF n % 4 = 0 THEN 0 ELSE 1)

\* the sum of ceil(content length / 4) over a list of items
RECURSIVE QuarterSum(_)
QuarterSum(items) ==
    IF items = <<>> THEN 0
    ELSE CeilQuarter(Length(items[1].content)) + QuarterSum(Tail(items))

\* C19: the totalTokens of a returned context is the sum of ceil(content
\* length / 4) over the items of its final list, with the contents as they
\* are after items were dropped and an item was truncated. Checked under
\* SpecBudget, where step 5 of collectEnhancedContext meets lists that do not fit.
C19_TotalRecomputed ==
    truncation # NotFitted => context.totalTokens = QuarterSum(context.items)

\* of two candidates one was cut and returned, the other dropped
C19_Witness ==
    /\ truncation.made
    /\ Len(candidates) = 2
    /\ Len(context.items) = 1
    /\ \A k \in 1..2 : candidates[k].content # context.items[1].content
    /\ context.totalTokens > 0
    /\ context.totalTokens < calculateTokens(candidates)

-----------------------------------------------------------------------------
(* truncateContent as a function of the item and the budget passed to it:   *)
(* items of 1 to MaxRows lines, budgets around the 100-token floor and the  *)
(* default budget                                                           *)

MaxRows == 14

RemainingBudgets == {10 * k : k \in 0..MaxRows} \cup {99, DefaultMaxTokens}

\* an item of importance 1.0 whose content is n numbered rows
RowsItem(n) == ContextItem("/a.ts", NoRange, [k \in 1..n |-> RowLine(k)], 10000, "current")

\* optimizeContextForTokenLimit passes the candidate and the budget left to
\* truncateContent
TruncateContent(budget) ==
    /\ analysis' = [call |-> "truncate", item |-> candidates[1], budget |-> budget,
                    result |-> truncateContent(candidates[1], budget)]
    /\ UNCHANGED <<fs, sources, dependencyGraph, idxVars, qryVars, storeVars, mgrVars>>

InitTruncate ==
    /\ IdleIndexer
    /\ NothingAnalysed
    /\ NoFiles
    /\ maxTokens = DefaultMaxTokens
    /\ symbolCache = NothingCached
    /\ conversationHistory = <<>>
    /\ recorded = <<>>
    /\ now = 0
    /\ candidates \in {<<RowsItem(n)>> : n \in 1..MaxRows}
    /\ truncation = NotFitted
    /\ pending = NoRequest
    /\ context = NoContext

NextTruncate == \E budget \in RemainingBudgets : TruncateContent(budget)

SpecTruncate == InitTruncate /\ [][NextTruncate]_vars

\* the line quota of a budget: a line for every ten tokens
LineQuota(budget) == budget \div 10

\* C20 as stated: whatever the budget passed, an item with fewer lines than
\* the budget's line quota comes back unchanged
C20_ShortItemUnchanged ==
    (analysis.call = "truncate" /\ Len(analysis.item.content) < LineQuota(analysis.budget))
        => analysis.result = analysis.item

\* C20: for a budget of at least 100 tokens, an item with no more lines than
\* the budget's line quota comes back unchanged; for a budget under 100
\* tokens nothing comes back, however few lines the item has
C20_ShortItemUnchangedAboveFloor ==
    analysis.call = "truncate" =>
        /\ (analysis.budget >= 100 /\ Len(analysis.item.content) <= LineQuota(analysis.budget))
              => analysis.result = analysis.item
        /\ analysis.budget < 100 => analysis.result = NoItem

\* an item of ten lines came back unchanged from a budget of 100 tokens,
\* although its text is estimated at more than 100 tokens
C20_Witness ==
    /\ analysis.call = "truncate"
    /\ analysis.budget = 100
    /\ Len(analysis.item.content) = 10
    /\ analysis.result = analysis.item
    /\ estimateTokens(analysis.result.content) > 100

-----------------------------------------------------------------------------
(* The items built from the ledger: turns that each modified one file are   *)
(* recorded, also while calls of getRecentlyModifiedContext are suspended at *)
(* their awaits                                                              *)

MaxRecentTurns == 4

\* the chat panel records a turn with the first item's file
RecordTurn(file) ==
    /\ Len(recorded) < MaxRecentTurns
    /\ addConversationTurn("ask", "reply", <<file>>)
    /\ UNCHANGED <<candidates, truncation, pending, context, idxVars, qryVars, storeVars,
                   depVars>>

\* a getRecentlyModifiedContext call in flight: the files it has still to
\* read, the list of modified files they were taken from, and the items
\* built so far
RecentCall(files, modified) ==
    [call |-> "recent", files |-> files, modified |-> modified, contexts |-> <<>>]

\* what a getRecentlyModifiedContext call returned, and the list of modified
\* files it had read
RecentResult(modified, contexts) ==
    [call |-> "recent", modified |-> modified, result |-> contexts]

\* step 4 of collectEnhancedContext calls getRecentlyModifiedContext, which
\* reads the recently modified files and awaits getFileContext for the first
\* of up to three of them; with no file it returns at once
GetRecentlyModifiedContext ==
    /\ Len(pending) < MaxInFlight
    /\ IF RecentFiles = <<>>
       THEN /\ analysis' = RecentResult(FilesModified(conversationHistory), <<>>)
            /\ UNCHANGED pending
       ELSE /\ pending' = Append(pending,
                                 RecentCall(RecentFiles, FilesModified(conversationHistory)))
            /\ UNCHANGED analysis
    /\ UNCHANGED <<fs, sources, dependencyGraph, maxTokens, symbolCache, conversationHistory,
                   recorded, now, candidates, truncation, context, idxVars, qryVars,
                   storeVars>>

\* getFileContext has the document and its symbols: the item is built from
\* the text as it is now, whatever turns were recorded and whatever was
\* typed meanwhile; after the last file the call returns its items
RecentFileRead(k) ==
    /\ LET c == pending[k]
           file == Head(c.files)
           contexts == c.contexts \o RecentContext(file)
       IN  /\ symbolCache' = Remembering(file)
           /\ IF Tail(c.files) = <<>>
              THEN /\ analysis' = RecentResult(c.modified, contexts)
                   /\ pending' = RemoveAt(pending, k)
              ELSE /\ pending' = [pending EXCEPT ![k] =
                                     [c EXCEPT !.files = Tail(c.files), !.contexts = contexts]]
                   /\ UNCHANGED analysis
    /\ UNCHANGED <<fs, sources, dependencyGraph, maxTokens, conversationHistory,
                   recorded, now, candidates, truncation, context, idxVars, qryVars, storeVars>>

InitRecent == IdleIndexer /\ FreshManager(DefaultMaxTokens) /\ NoFiles

NextRecent ==
    \/ \E file \in Files : RecordTurn(file)
    \/ GetRecentlyModifiedContext
    \/ \E k \in DOMAIN pending : RecentFileRead(k)
    \/ \E f \in Files : DidChangeTextDocument(f, <<CodeLine, CodeLine>>)

SpecRecent == InitRecent /\ [][NextRecent]_vars

\* the elements of a sequence
Elements(seq) == {seq[k] : k \in DOMAIN seq}

\* C21: the items built from the conversation history are those of the (up
\* to 3) most recently modified files of the ledger as it was when the call
\* read it, each with its scored importance multiplied by 0.7 (compared as
\* sets of file and importance, so that their order and the text they were
\* read with are left open).
C21_MostRecentFiles ==
    analysis.call = "recent" =>
        LET recent == SliceLast(analysis.modified, 3)
            scored(f) == getFileContext(f, "")
        IN  {<<analysis.result[k].file, analysis.result[k].importance>> :
                k \in DOMAIN analysis.result} =
            {<<recent[k], TimesRecent(scored(recent[k]).importance)>> :
                k \in {h \in DOMAIN recent : scored(recent[h]) # NoItem}}

-----------------------------------------------------------------------------
(* Overlapping re-scans: every edit of the document is followed at once by   *)
(* an index call, as a change listener would make it, whether or not         *)
(* earlier index calls on the file are still suspended at the oracle         *)

\* the texts the document passes through
OverlapTexts == {<<CodeLine>>, <<AiLine, CodeLine>>, <<CodeLine, AiLine>>, <<PromptLine, AiLine>>}

\* the document is edited and index(doc) is called for the change
EditAndRescan(f, text) ==
    /\ calls < MaxIndexCalls
    /\ text # doc[f]
    /\ doc' = [doc EXCEPT ![f] = text]
    /\ events' = [events EXCEPT ![f] = Append(@, "change")]
    /\ calls' = calls + 1
    /\ Continue(f, ScanLoop(f, text, 0, <<>>, <<>>), scans)
    /\ UNCHANGED <<oracle, qryVars, storeVars, mgrVars, depVars>>

InitOverlap ==
    /\ doc = [f \in Files |-> IF f = EditedFile THEN <<CodeLine>> ELSE OtherText]
    /\ \E answer \in {OracleNothing, OracleTree(<<Sym(SymRange(1, 1), <<>>)>>)} :
         oracle = [f \in Files |-> IF f = EditedFile THEN answer ELSE OracleNothing]
    /\ map = [f \in Files |-> <<>>]
    /\ origin = [f \in Files |-> <<>>]
    /\ scans = <<>>
    /\ outcome = [f \in Files |-> "none"]
    /\ updates = 0
    /\ calls = 0
    /\ uuids = 0
    /\ lastStep = NoStep
    /\ events = [f \in Files |-> <<>>]
    /\ NoQueryYet
    /\ EmptyStore
    /\ FreshManager(DefaultMaxTokens)
    /\ NoFiles

NextOverlap ==
    \/ \E text \in OverlapTexts : EditAndRescan(EditedFile, text)
    \/ Index(EditedFile)
    \/ \E k \in DOMAIN scans : OracleReturn(k)

SpecOverlap == InitOverlap /\ [][NextOverlap]_vars

\* C22: once every index call on the file has completed, the file's list is
\* the result of one complete scan of the document's latest text (ids drawn
\* at random apart), although the calls overlapped and the document was
\* edited between them.
C22_OverlapHarmless ==
    (scans = <<>> /\ outcome[EditedFile] = "completed") =>
        SameButDrawnIds(map[EditedFile],
                        Indexed(EditedFile, doc[EditedFile], oracle[EditedFile]).directives)

-----------------------------------------------------------------------------
(* Claims about the lines a scan examines, checked under SpecIndexer *)

\* C23: after a completed scan, for every global block the scan consumed,
\* the line that follows the block's last comment-marked line, when it holds
\* a directive of one of the three forms, has a directive in the list.
C23_ResumesAfterBlock ==
    (scans = <<>> /\ outcome[EditedFile] = "completed") =>
        LET text == doc[EditedFile]
            read == origin[EditedFile]
        IN  \A k \in DOMAIN read :
                GLOBAL_TAG(LineAt(text, read[k])) =>
                    LET j == BlockEnd(text, read[k] + 1)
                    IN  (/\ j < LineCount(text)
                         /\ \/ PROMPT_TAG(LineAt(text, j))
                            \/ LINE_TAG(LineAt(text, j))
                            \/ GLOBAL_TAG(LineAt(text, j)))
                        => \E h \in DOMAIN read : read[h] = j

-----------------------------------------------------------------------------
(* extractSymbolsFromContent as a function of the text, the oracle's tree    *)
(* and the range                                                             *)

\* the names the oracle's symbols carry
SymbolNames ==
    {<<"x">>, <<"i", "d">>, <<"s", "u", "m">>, <<"t", "o", "t", "a", "l">>}

SymbolTexts == {<<DeclLine>>, <<IdLine>>, <<DeclLine, IdLine>>, <<CodeLine, CodeLine>>}

\* the oracle rejects, gives nothing, or gives a symbol on line 0 with a child
NamedTrees ==
    {OracleFails, OracleNothing}
    \cup {OracleTree(<<NamedSym(n, SymRange(0, 0), <<NamedSym(m, SymRange(0, 0), <<>>)>>)>>) :
            n \in SymbolNames, m \in SymbolNames}

\* searchCodebaseForSymbols asks for the names in an item's range
ExtractSymbolsFromContent(file, range) ==
    /\ analysis' = [call |-> "extract", file |-> file, range |-> range,
                    result |-> extractSymbolsFromContent(file, range)]
    /\ UNCHANGED <<fs, sources, dependencyGraph, idxVars, qryVars, storeVars, mgrVars>>

InitSymbols ==
    /\ \E text \in SymbolTexts :
         doc = [f \in Files |-> IF f = EditedFile THEN text ELSE OtherText]
    /\ \E answer \in NamedTrees :
         oracle = [f \in Files |-> IF f = EditedFile THEN answer ELSE OracleNothing]
    /\ map = [f \in Files |-> <<>>]
    /\ origin = [f \in Files |-> <<>>]
    /\ scans = <<>>
    /\ outcome = [f \in Files |-> "none"]
    /\ updates = 0
    /\ calls = 0
    /\ uuids = 0
    /\ lastStep = NoStep
    /\ events = [f \in Files |-> <<>>]
    /\ NoQueryYet
    /\ EmptyStore
    /\ FreshManager(DefaultMaxTokens)
    /\ NoFiles

NextSymbols ==
    \E range \in {Range(0, 0, 0, 19), Range(0, 0, 2, 0), Range(1, 0, 1, 16),
                  Range(0, 0, 0, 9), Range(0, 6, 0, 19)} :
        ExtractSymbolsFromContent(EditedFile, range)

SpecSymbols == InitSymbols /\ [][NextSymbols]_vars

\* C24: every name extractSymbolsFromContent returns, from the oracle's tree
\* or from the text patterns, is longer than 2 characters.
C24_NamesLongerThanTwo ==
    analysis.call = "extract" =>
        \A k \in DOMAIN analysis.result : Len(analysis.result[k]) > 2

\* C25: when truncateContent shortens an item under line quota q, the new
\* content is the first floor(0.6 q) lines of the original, one marker line,
\* and the last floor(0.4 q) lines of the original, unchanged and in their
\* order, at most q + 1 lines in all; the item's other fields are kept.
\* Checked under SpecTruncate.
C25_HeadMarkerTail ==
    (analysis.call = "truncate" /\ analysis.result # NoItem /\ analysis.result # analysis.item) =>
        LET q == LineQuota(analysis.budget)
            old == analysis.item.content
            new == analysis.result.content
        IN  /\ Len(new) <= q + 1
            /\ analysis.result = [analysis.item EXCEPT !.content = new]
            /\ \E head \in 0..q, tail \in 0..q :
                  /\ 10 * head <= 6 * q /\ 6 * q < 10 * (head + 1)
                  /\ 10 * tail <= 4 * q /\ 4 * q < 10 * (tail + 1)
                  /\ Len(new) = head + 1 + tail
                  /\ \A k \in 1..head : new[k] = old[k]
                  /\ new[head + 1] = MarkerLine
                  /\ \A k \in 1..tail : new[head + 1 + k] = old[Len(old) - tail + k]

\* fourteen lines cut under a budget of 110 tokens: six lines, the marker,
\* four lines
C25_Witness ==
    /\ analysis.call = "truncate"
    /\ analysis.budget = 110
    /\ Len(analysis.item.content) = 14
    /\ Len(analysis.result.content) = 11
    /\ analysis.result.content[7] = MarkerLine
    /\ analysis.result.content[8] = analysis.item.content[11]

-----------------------------------------------------------------------------
(* The current item: documents of 1 to MaxLines lines, the trees of Trees,   *)
(* a cursor at the start or the end of a line. Step 1 of                    *)
(* collectEnhancedContext of contextManager.ts's class is followed from     *)
(* await to await while the document is typed in.                            *)

InitCursor ==
    /\ \E n \in 1..MaxLines :
         /\ doc = [f \in Files |-> IF f = EditedFile THEN [k \in 1..n |-> CodeLine] ELSE OtherText]
         /\ \E answer \in OracleAnswers(n) :
              oracle = [f \in Files |-> IF f = EditedFile THEN answer ELSE OracleNothing]
    /\ map = [f \in Files |-> <<>>]
    /\ origin = [f \in Files |-> <<>>]
    /\ scans = <<>>
    /\ outcome = [f \in Files |-> "none"]
    /\ updates = 0
    /\ calls = 0
    /\ uuids = 0
    /\ lastStep = NoStep
    /\ events = [f \in Files |-> <<>>]
    /\ NoQueryYet
    /\ EmptyStore
    /\ FreshManager(DefaultMaxTokens)
    /\ NoFiles

NextCursor ==
    \/ CollectEnhancedContext("")
    \/ \E k \in DOMAIN pending :
          \E line \in 0..(LineCount(doc[EditedFile]) - 1), character \in {0, 5} :
              WorkspaceInfoReturns(k, Editor(EditedFile,
                                             Range(line, character, line, character)))
    \/ \E k \in DOMAIN pending : SmartRangeReturns(k)
    \/ \E k \in DOMAIN pending : CurrentSymbolsReturn(k)
    \/ \E n \in 1..MaxLines : DidChangeTextDocument(EditedFile, [j \in 1..n |-> CodeLine])

SpecCursor == InitCursor /\ [][NextCursor]_vars

\* the symbols of the edited file's tree, at any depth, that contain a position
SymbolsAround(position) ==
    {s \in Elements(flatten(getDocumentSymbols(EditedFile).symbols)) :
        ContainsPos(s.range, position)}

\* C26: with an empty selection the range of the current item, when step 1
\* computes it, is the range of a symbol containing the cursor such that no
\* symbol of the tree containing the cursor has a range strictly inside it;
\* when no symbol contains the cursor, or the oracle gives no tree, it is the
\* whole file as the document then is.
C26_InnermostSymbol ==
    [][\A k \in DOMAIN pending :
          (pending[k].range = NoRange /\ pending'[k].range # NoRange) =>
              LET around == SymbolsAround(pending'[k].editor.selection.start)
                  range == pending'[k].range
              IN  IF around = {}
                  THEN range = Range(0, 0, LineCount(doc[EditedFile]), 0)
                  ELSE /\ \E s \in around : s.range = range
                       /\ \A s \in around :
                             ~(ContainsRange(range, s.range) /\ s.range # range)]_vars

-----------------------------------------------------------------------------
(* Claims about the order of the fitted list, checked under SpecBudget *)

\* the place of a file's candidate in the candidates sorted by importance
SortedPlace(file) ==
    LET sorted == SortByImportance(candidates)
    IN  CHOOSE k \in DOMAIN sorted : sorted[k].file = file

\* C27: the list optimizeContextForTokenLimit returns is in non-increasing
\* order of importance; an item whose content was cut is the last item of
\* the list, and when truncateContent supplied the last item every other
\* item of the list stands before it in the sorted candidates.
C27_SortedTruncatedLast ==
    truncation # NotFitted =>
        LET items == context.items
            n == Len(items)
        IN  /\ \A i \in 1..n : \A j \in 1..n :
                  i < j => items[i].importance >= items[j].importance
            /\ \A k \in 1..n : items[k] \notin Elements(candidates) => k = n
            /\ truncation.made =>
                  \A k \in 1..(n - 1) : SortedPlace(items[k].file) < SortedPlace(items[n].file)

\* the candidates came in rising order of importance; the more important one
\* is returned first and whole, the other one cut, behind it
C27_Witness ==
    /\ truncation.made
    /\ Len(candidates) = 2
    /\ candidates[1].importance < candidates[2].importance
    /\ Len(context.items) = 2
    /\ context.items[1] = candidates[2]
    /\ context.items[2].file = candidates[1].file
    /\ context.items[2].content # candidates[1].content

\* C28: when the candidates hold an item of type current, the fitted list
\* holds an item of type current for the same file: budget fitting does not
\* drop the current item.
C28_CurrentKept ==
    truncation # NotFitted =>
        \A k \in DOMAIN candidates :
            candidates[k].type = "current" =>
                \E h \in DOMAIN context.items :
                    /\ context.items[h].type = "current"
                    /\ context.items[h].file = candidates[k].file

-----------------------------------------------------------------------------
(* Claims about file-level directives in queries, checked under SpecQuery *)

\* a directive bound as scan binds a global block
IsGlobal(d) == d.range = GlobalRange

\* C29: getForFile(file) holds the text of every global directive of the
\* file, at its place in the list; getAllForRange(file, range) returns the
\* global directives' texts together with those of the other directives the
\* range meets when the range contains position (0,0), and the texts of the
\* other directives alone when it does not.
C29_GlobalOnlyAtOrigin ==
    query # NoQuery =>
        LET f == query.file
            meets(d) == ~IsGlobal(d) /\ SharePosition(d.range, query.range)
            meetsOrGlobal(d) == IsGlobal(d) \/ SharePosition(d.range, query.range)
        IN  /\ Len(getForFile(f)) = Len(map[f])
            /\ \A k \in 1..Len(map[f]) : IsGlobal(map[f][k]) => getForFile(f)[k] = map[f][k].text
            /\ IF ContainsPos(query.range, Pos(0, 0))
               THEN result = TextsWhere(f, meetsOrGlobal)
               ELSE result = TextsWhere(f, meets)

\* a query range starting after (0,0) got the text of the directive it meets
\* and not that of the file's global directive, which getForFile holds
C29_Witness ==
    /\ query # NoQuery
    /\ ~ContainsPos(query.range, Pos(0, 0))
    /\ Len(map[query.file]) = 2
    /\ IsGlobal(map[query.file][1])
    /\ result = <<map[query.file][2].text>>
    /\ getForFile(query.file)[1] = map[query.file][1].text
-----------------------------------------------------------------------------
(* PromptStore and the code lens provider that fills it *)

MaxAnchors == 2

\* type Anchor = { id, prompt, range }
Anchor(id, prompt, range) == [id |-> id, prompt |-> prompt, range |-> range]

\* list.find((a) => a.id === id): the index of the first anchor with the id,
\* 0 when there is none
FindAnchor(list, id) ==
    LET hits == {k \in 1..Len(list) : list[k].id = id}
    IN  IF hits = {} THEN 0 ELSE CHOOSE k \in hits : \A h \in hits : k <= h

\* registerAnchor that pushes a new anchor whether or not the id is there
registerAnchorAppending(m, uri, id, prompt, line) ==
    [m EXCEPT ![uri] = Append(m[uri], Anchor(id, prompt, Range(line + 1, 0, line + 1, 0)))]

\* PromptStore.registerAnchor: the map it leaves
registerAnchor(m, uri, id, prompt, line) ==
    LET list == m[uri]
        range == Range(line + 1, 0, line + 1, 0)
        existing == FindAnchor(list, id)
    IN  IF existing # 0
        THEN [m EXCEPT ![uri] = [list EXCEPT ![existing].prompt = prompt]]
        ELSE [m EXCEPT ![uri] = Append(list, Anchor(id, prompt, range))]

\* PromptStore.get: the anchor it returns, or the Error it throws
getAnchor(m, uri, id) ==
    LET hit == FindAnchor(m[uri], id)
    IN  IF hit = 0 THEN [thrown |-> TRUE, hit |-> <<>>]
        ELSE [thrown |-> FALSE, hit |-> <<m[uri][hit]>>]

\* '// @ai prompt="fix" id="1"'
RepromptIdLine ==
    Line("prompt", TRUE, "fix", ExplicitId, "@ai prompt=\"fix\" id=\"1\"",
         <<"/", "/", " ", "@", "a", "i", " ", "p", "r", "o", "m", "p", "t", "=", "\"", "f", "i",
           "x", "\"", " ", "i", "d", "=", "\"", "1", "\"">>, 0)

\* the documents the provider is shown: without a tag, with a tag that
\* carries no id, with one that carries an id, with both, and with the same
\* id on two lines
LensTexts ==
    {<<CodeLine>>, <<PromptLine>>, <<CodeLine, RepromptIdLine>>,
     <<PromptIdLine, PromptLine>>, <<PromptIdLine, RepromptIdLine>>}

\* the lines callers of registerAnchor name
AnchorLines == {0, 1}

\* the for loop of provideCodeLenses from line i on: the store it leaves, the
\* number of ids it drew and the [line, id] of the lenses it made
RECURSIVE LensLoop(_, _, _, _, _, _)
LensLoop(uri, text, i, m, drawn, lenses) ==
    IF ~(i < LineCount(text))
    THEN [store |-> m, drawn |-> drawn, lenses |-> lenses]
    ELSE LET line == text[i + 1]
         IN  IF line.form # "prompt"
             THEN LensLoop(uri, text, i + 1, m, drawn, lenses)
             ELSE LET fresh == line.id = NoId
                      id == IF fresh THEN UuidBase + uuids + drawn ELSE line.id
                  IN  LensLoop(uri, text, i + 1,
                               registerAnchor(m, uri, id, line.text, i),
                               IF fresh THEN drawn + 1 ELSE drawn,
                               Append(lenses, [line |-> i, id |-> id]))

\* the number of anchors a store holds over all its uris
RECURSIVE CountAnchors(_, _)
CountAnchors(m, uris) ==
    IF uris = {} THEN 0
    ELSE LET u == CHOOSE u \in uris : TRUE
         IN  Len(m[u]) + CountAnchors(m, uris \ {u})

\* the editor asks the provider for the lenses of a document
ProvideCodeLenses(uri, text) ==
    LET r == LensLoop(uri, text, 0, store, 0, <<>>)
    IN  /\ CountAnchors(r.store, Uris) <= MaxAnchors
        /\ store' = r.store
        /\ uuids' = uuids + r.drawn
        /\ storeCall' = [NoStoreCall EXCEPT !.call = "lenses", !.uri = uri,
                                            !.lenses = r.lenses]
        /\ UNCHANGED <<doc, oracle, map, origin, scans, outcome, updates, calls,
                       lastStep, events, qryVars, mgrVars, depVars>>

\* a caller registers one anchor
RegisterAnchor(uri, id, prompt, line) ==
    /\ CountAnchors(registerAnchor(store, uri, id, prompt, line), Uris) <= MaxAnchors
    /\ store' = registerAnchor(store, uri, id, prompt, line)
    /\ storeCall' = [NoStoreCall EXCEPT !.call = "register", !.uri = uri, !.id = id,
                                        !.prompt = prompt, !.line = line,
                                        !.before = store[uri]]
    /\ UNCHANGED <<idxVars, qryVars, mgrVars, depVars>>

\* the run-prompt command looks an anchor up
GetAnchor(uri, id) ==
    LET r == getAnchor(store, uri, id)
    IN  /\ storeCall' = [NoStoreCall EXCEPT !.call = "get", !.uri = uri, !.id = id,
                                            !.before = store[uri],
                                            !.thrown = r.thrown, !.hit = r.hit]
        /\ UNCHANGED <<store, idxVars, qryVars, mgrVars, depVars>>

\* the ids and prompts callers pass
AnchorIds == {ExplicitId, ExplicitId + 1}
LookupAnchorIds == AnchorIds \cup {UuidBase, UuidBase + MaxAnchors}
AnchorPrompts == {"doc", "fix"}

InitStore == IdleIndexer /\ FreshManager(DefaultMaxTokens) /\ NoFiles

NextStore ==
    \/ \E u \in Uris, text \in LensTexts : ProvideCodeLenses(u, text)
    \/ \E u \in Uris, id \in AnchorIds, p \in AnchorPrompts, l \in AnchorLines :
           RegisterAnchor(u, id, p, l)
    \/ \E u \in Uris, id \in LookupAnchorIds : GetAnchor(u, id)

SpecStore == InitStore /\ [][NextStore]_vars

\* the ids of a list of anchors, in order
AnchorIdsOf(list) == [k \in 1..Len(list) |-> list[k].id]

\* C30: a PromptStore holds at most one anchor per (uri, id): registering an
\* id already present for the uri replaces that anchor's prompt and leaves its
\* range, the other anchors and the number of anchors as they were, registering
\* a new id appends exactly one anchor, and get throws exactly when the uri has
\* no anchor with the id.
C30_OneAnchorPerId ==
    /\ \A u \in Uris : \A i, j \in 1..Len(store[u]) :
           store[u][i].id = store[u][j].id => i = j
    /\ storeCall.call = "register" =>
           LET before == storeCall.before
               after == store[storeCall.uri]
               present == \E k \in 1..Len(before) : before[k].id = storeCall.id
           IN  IF present
               THEN /\ Len(after) = Len(before)
                    /\ \A k \in 1..Len(before) :
                           /\ after[k].id = before[k].id
                           /\ after[k].range = before[k].range
                           /\ after[k].prompt = IF before[k].id = storeCall.id
                                                THEN storeCall.prompt
                                                ELSE before[k].prompt
               ELSE /\ Len(after) = Len(before) + 1
                    /\ SubSeq(after, 1, Len(before)) = before
                    /\ after[Len(after)].id = storeCall.id
                    /\ after[Len(after)].prompt = storeCall.prompt
    /\ storeCall.call = "get" =>
           (storeCall.thrown <=>
                ~\E k \in 1..Len(store[storeCall.uri]) :
                     store[storeCall.uri][k].id = storeCall.id)

\* an id is registered again, with another prompt and on another line, for a
\* uri that holds two anchors
C30_Witness ==
    /\ storeCall.call = "register"
    /\ Len(storeCall.before) = 2
    /\ \E k \in 1..2 :
           /\ storeCall.before[k].id = storeCall.id
           /\ storeCall.before[k].prompt # storeCall.prompt
           /\ storeCall.before[k].range # Range(storeCall.line + 1, 0, storeCall.line + 1, 0)
           /\ store[storeCall.uri][k].prompt = storeCall.prompt
=============================================================================
